---- MODULE Spec2Model ----
(***************************************************************************)
(* Find / replace widgets of codimension (src/src/ui/findreplacewidget.py) *)
(* as a state machine: the per-editor search registry (SearchSupport), the *)
(* incremental search (_performSearch), the directional search (onNext /   *)
(* onPrev), the replace operations and the find / replace histories.       *)
(*                                                                         *)
(* Text is a sequence of one-character strings; offsets, lines and columns *)
(* are 0-based as in the source.                                           *)
(***************************************************************************)
EXTENDS Integers, Sequences, FiniteSets, TLC

NL == "\n"

NoMatch == <<-1, -1, -1>>

Min(a, b) == IF a < b THEN a ELSE b

\* the element of a one-element set: The({e(x) : x \in {v}}) is e with x
\* bound to the value v, computed once
The(S) == CHOOSE x \in S : TRUE

(***************************************************************************)
(* The text component (editor).  Its code is not part of the excerpt; it   *)
(* is modelled from the interface the widgets consume.                     *)
(***************************************************************************)

\* offsets of the line breaks of a text
NLPos(txt) == {p \in 0..(Len(txt) - 1) : txt[p + 1] = NL}

lineCount(txt) == Cardinality(NLPos(txt)) + 1

\* offset of the first character of a line
LineStart(txt, line) ==
    IF line = 0 THEN 0
    ELSE 1 + CHOOSE p \in NLPos(txt) :
                 Cardinality({q \in NLPos(txt) : q < p}) = line - 1

\* number of characters of a line, the line break excluded
LineLen(txt, line) ==
    The({The({IF ends = {} THEN Len(txt) - s
              ELSE (CHOOSE p \in ends : \A q \in ends : p <= q) - s :
              ends \in {{p \in NLPos(txt) : p >= s}}}) :
         s \in {LineStart(txt, line)}})

\* a (line, column) pair which addresses a place of the text
ValidLineIndex(txt, line, index) ==
    /\ line >= 0 /\ line < lineCount(txt)
    /\ index >= 0 /\ index <= LineLen(txt, line)

positionFromLineIndex(txt, line, index) == LineStart(txt, line) + index

lineIndexFromPosition(txt, pos) ==
    The({<<line, pos - LineStart(txt, line)>> :
         line \in {Cardinality({q \in NLPos(txt) : q < pos})}})

\* the text of at most length characters which starts at offset pos
stringAt(txt, pos, length) ==
    SubSeq(txt, pos + 1, Min(pos + length, Len(txt)))

Lower(c) == IF c = "A" THEN "a" ELSE IF c = "B" THEN "b" ELSE c

IsWordChar(c) == c \in {"a", "b", "A", "B"}

\* the search options: opts.regexp, opts.case, opts.word
MatchAt(txt, what, opts, p) ==
    /\ Len(what) > 0
    /\ p >= 0
    /\ p + Len(what) <= Len(txt)
    /\ \A i \in 1..Len(what) :
           IF opts.case THEN txt[p + i] = what[i]
           ELSE Lower(txt[p + i]) = Lower(what[i])
    /\ opts.word =>
           /\ (p = 0 \/ ~IsWordChar(txt[p]))
           /\ (p + Len(what) = Len(txt) \/ ~IsWordChar(txt[p + Len(what) + 1]))

\* matches which lie within [from, to], scanned left to right, a match
\* is looked for after the end of the previous one
RECURSIVE ScanTargets(_, _, _, _, _)
ScanTargets(txt, what, opts, from, to) ==
    IF from + Len(what) > to \/ Len(what) = 0 THEN <<>>
    ELSE IF MatchAt(txt, what, opts, from)
         THEN <<<<from, Len(what)>>>> \o
              ScanTargets(txt, what, opts, from + Len(what), to)
         ELSE ScanTargets(txt, what, opts, from + 1, to)

\* the scan range of a request; a line of -1 as the end means the end of
\* the text
RangeEnd(txt, lineTo, posTo) ==
    IF lineTo = -1 THEN Len(txt) ELSE positionFromLineIndex(txt, lineTo, posTo)

\* ordered list of [line, pos, length] of the matches within the range
getTargets(txt, what, opts, lineFrom, posFrom, lineTo, posTo) ==
    The({[i \in 1..Len(found) |->
             The({<<li[1], li[2], found[i][2]>> :
                  li \in {lineIndexFromPosition(txt, found[i][1])}})] :
         found \in {ScanTargets(txt, what, opts,
                                positionFromLineIndex(txt, lineFrom, posFrom),
                                RangeEnd(txt, lineTo, posTo))}})

\* the first match at or after (line, pos), [-1, -1, -1] if there is none
highlightMatch(txt, what, opts, line, pos) ==
    The({IF Len(targets) = 0 THEN NoMatch ELSE targets[1] :
         targets \in {getTargets(txt, what, opts, line, pos, -1, -1)}})

\* the position the editor takes for a requested (line, column): requests
\* outside the text are brought to the nearest place of the text
ClampLineIndex(txt, line, index) ==
    The({<<l, IF index < 0 THEN 0 ELSE Min(index, LineLen(txt, l))>> :
         l \in {IF line < 0 THEN 0 ELSE Min(line, lineCount(txt) - 1)}})

\* number of text lines the editor shows at a time
ViewLines == 2

\* the first visible line after the editor made a line visible
ensureLineOnScreenFrom(first, line) ==
    IF line < first THEN (IF line < 0 THEN 0 ELSE line)
    ELSE IF line >= first + ViewLines THEN line - ViewLines + 1
    ELSE first

(***************************************************************************)
(* Tabs.  Every tab has an identity (uuid) which is never reused; the      *)
(* Welcome tab is no editor and cannot be closed.                          *)
(***************************************************************************)
None == "None"
NoUUID == ""
Welcome == "W"
Docs == {"A", "B", "V"}
Tabs == Docs \cup {Welcome}

getType(tab) ==
    IF tab \in {"A", "B"} THEN "PlainTextEditor"
    ELSE IF tab = "V" THEN "VCSAnnotateViewer"
    ELSE "HTMLViewer"

SearchableTypes == {"PlainTextEditor", "VCSAnnotateViewer"}

(***************************************************************************)
(* State.                                                                  *)
(*   widget   the fields of the FindWidget or ReplaceWidget object         *)
(*   editors  per tab: text, cursor, first visible line, indicators and    *)
(*            the number of connections of the widget to its cursor signal *)
(*   manager  the editors manager: open tabs and the current tab           *)
(*   project  the histories handed to the project for persistence          *)
(*   output   what the last event produced: emitted incSearchDone values,  *)
(*            status bar messages, undo actions, a raised lookup fault     *)
(***************************************************************************)
VARIABLES widget, editors, manager, project, output

vars == <<widget, editors, manager, project, output>>

\* the state as one value: handlers are functions from state to state
World == [w |-> widget, e |-> editors, m |-> manager, p |-> project,
          o |-> output]

\* SearchAttr.__init__
SearchAttr == [line |-> -1, pos |-> -1, firstLine |-> -1, match |-> NoMatch]

opts(s) == [regexp |-> s.w.isRegexp, case |-> s.w.isCase, word |-> s.w.isWord]

\* SearchSupport
hasEditor(s, uuid) == uuid \in DOMAIN s.w.editorSearchAttributes

get(s, uuid) == s.w.editorSearchAttributes[uuid]

add(s, uuid, searchAttr) ==
    [s EXCEPT !.w.editorSearchAttributes =
        [k \in (DOMAIN @) \cup {uuid} |-> IF k = uuid THEN searchAttr ELSE @[k]]]

delete(s, uuid) ==
    IF hasEditor(s, uuid)
    THEN [s EXCEPT !.w.editorSearchAttributes =
             [k \in (DOMAIN @) \ {uuid} |-> @[k]]]
    ELSE s

\* (faulty variant) the start position of the current editor only is cleaned
clearStartPositions_Current(s) ==
    [s EXCEPT !.w.editorSearchAttributes =
        [k \in DOMAIN @ |-> IF k = s.w._editorUUID
                            THEN [@[k] EXCEPT !.line = -1, !.pos = -1]
                            ELSE @[k]]]

clearStartPositions(s) ==
    [s EXCEPT !.w.editorSearchAttributes =
        [k \in DOMAIN @ |-> [@[k] EXCEPT !.line = -1, !.pos = -1]]]

\* editorsManager.getWidgetByUUID
getWidgetByUUID(s, uuid) == IF uuid \in s.m.open THEN uuid ELSE None

NoFault == "none"

\* no search session is followed
NoSession == [on |-> FALSE, cursor |-> <<0, 0>>, firstVisible |-> 0,
              navigated |-> FALSE]

SessionStarters == {"show", "startHiddenSearch"}

NavigationOps == {"onNext", "onPrev", "returnPressed"}

SessionOps == {"editText", "checkBox"} \cup NavigationOps

\* the search session an event belongs to: a session starts with show or
\* startHiddenSearch, where the cursor and the first visible line of the
\* current tab are noted; it goes on over query and option changes and
\* over Next / Previous (navigated tells that one of them has found a
\* match); any other event ends it
sessionOf(s, op) ==
    IF op \in SessionStarters
    THEN [on |-> TRUE, cursor |-> s.e[s.m.current].cursor,
          firstVisible |-> s.e[s.m.current].firstVisible,
          navigated |-> FALSE]
    ELSE IF op \in SessionOps /\ s.o.session.on
         THEN [s.o.session EXCEPT !.navigated =
                  \/ @
                  \/ /\ s.o.op \in NavigationOps
                     /\ \E i \in 1..Len(s.o.emitted) : s.o.emitted[i]]
         ELSE NoSession

\* the direction the user asked for last: that of the most recent Next or
\* Previous which had something to search (a query, in a tab with a text),
\* forward when there was none since the last show or startHiddenSearch;
\* replace-and-move goes on with a Next
directionOf(s, op) ==
    IF op \in SessionStarters THEN "forward"
    ELSE IF /\ op \in {"onNext", "onPrev", "onReplaceAndMove"}
            /\ s.w.findText # <<>>
            /\ getType(s.m.current) \in SearchableTypes
            /\ op = "onReplaceAndMove" =>
                   s.w._editorUUID \in DOMAIN s.w.editorSearchAttributes
         THEN IF op = "onPrev" THEN "backward" ELSE "forward"
         ELSE s.o.direction

\* the start of an event: nothing has been produced yet
\* (with the event's name, the cursor of the current tab at its start, and
\* the same of the event before it)
Begin(s, op) ==
    [s EXCEPT !.o = [op |-> op, emitted |-> <<>>, messages |-> <<>>,
                     undo |-> <<>>, count |-> 0, fault |-> NoFault,
                     startCursor |-> s.e[s.m.current].cursor,
                     session |-> sessionOf(s, op),
                     direction |-> directionOf(s, op),
                     persisted |-> 0,
                     last |-> [op |-> s.o.op, emitted |-> s.o.emitted,
                               startCursor |-> s.o.startCursor]]]

showStatusBarMessage(s, msg) == [s EXCEPT !.o.messages = Append(@, msg)]

\* ReplaceWidget.__onSearchDone, connected to incSearchDone
__onSearchDone(s, found) ==
    [s EXCEPT !.w.replaceButton = found,
              !.w.replaceAndMoveButton = found,
              !.w.replaceAllButton = found,
              !.w.__replaceCouldBeEnabled = TRUE]

\* incSearchDone.emit
incSearchDone(s, found) ==
    LET s1 == [s EXCEPT !.o.emitted = Append(@, found)]
    IN  IF s.w.cls = "ReplaceWidget" THEN __onSearchDone(s1, found) ELSE s1

\* ReplaceWidget.__cursorPositionChanged
__cursorPositionChanged(s) ==
    LET enable ==
            IF hasEditor(s, s.w._editorUUID)
            THEN /\ s.e[s.w._editor].cursor[1] = get(s, s.w._editorUUID).match[1]
                 /\ s.e[s.w._editor].cursor[2] = get(s, s.w._editorUUID).match[2]
            ELSE FALSE
    IN  [s EXCEPT !.w.replaceButton = enable,
                  !.w.replaceAndMoveButton = enable,
                  !.w.__replaceCouldBeEnabled = enable]

\* the editor puts its cursor to (line, index) and notifies the connected
\* slots when the position changed
setCursorPosition(s, ed, line, index) ==
    The({IF c # s.e[ed].cursor /\ s.e[ed].connections > 0
         THEN __cursorPositionChanged([s EXCEPT !.e[ed].cursor = c])
         ELSE [s EXCEPT !.e[ed].cursor = c] :
         c \in {ClampLineIndex(s.e[ed].text, line, index)}})

\* editor.setSelection(eLine, ePos, line, pos): the cursor lands on (line, pos)
setSelection(s, ed, line, index) == setCursorPosition(s, ed, line, index)

ensureLineOnScreen(s, ed, line) ==
    [s EXCEPT !.e[ed].firstVisible = ensureLineOnScreenFrom(@, line)]

\* offsets of all the matches of the text
AllMatches(txt, what, o) ==
    The({{found[i][1] : i \in 1..Len(found)} :
         found \in {ScanTargets(txt, what, o, 0, Len(txt))}})

\* the indicators editor.highlightMatch leaves: the matches carry the
\* search indicator, the match it gives back (target) the match indicator
\* when asked to
paintMatches(s, ed, what, target, highlightFirst) ==
    The({[s EXCEPT !.e[ed].searchIndicator =
                       AllMatches(s.e[ed].text, what, opts(s)) \ first,
                   !.e[ed].matchIndicator = first] :
         first \in {IF target = NoMatch \/ ~highlightFirst THEN {}
                    ELSE {positionFromLineIndex(s.e[ed].text, target[1],
                                                target[2])}}})

matchFrom(s, ed, what, line, pos) ==
    The({highlightMatch(s.e[ed].text, what, opts(s), c[1], c[2]) :
         c \in {ClampLineIndex(s.e[ed].text, line, pos)}})

clearSearchIndicators(s, ed) ==
    [s EXCEPT !.e[ed].searchIndicator = {}, !.e[ed].matchIndicator = {}]

(***************************************************************************)
(* FindReplaceBase                                                         *)
(***************************************************************************)
Empty == <<>>

maxHistory == 32

\* (faulty variant) the record of a closed tab is kept
__onTabClosed_Kept(s, uuid) == s

\* FindReplaceBase.__onTabClosed
__onTabClosed(s, uuid) == delete(s, uuid)

\* FindReplaceBase.updateStatus
FindReplaceBase_updateStatus(s) ==
    LET cw == s.m.current
        isText == getType(cw) \in SearchableTypes
        textAvailable == s.w.findText # Empty
    IN  [s EXCEPT !.w._currentWidget = cw,
                  !.w._isTextEditor = isText,
                  !.w._editor = IF isText THEN cw ELSE None,
                  !.w._editorUUID = IF isText THEN cw ELSE NoUUID,
                  !.w.findtextCombo = isText,
                  !.w.findPrevButton = isText /\ textAvailable,
                  !.w.findNextButton = isText /\ textAvailable,
                  !.w.checkBoxes = isText]

\* (faulty variant) the highlights of the other editors are cleared, what is
\* memorized about them is kept
_resetHighlightOtherEditors_Keeping(s, uuid) ==
    [s EXCEPT !.e = [t \in DOMAIN @ |->
                        IF /\ t \in DOMAIN s.w.editorSearchAttributes
                           /\ t # uuid /\ getWidgetByUUID(s, t) # None
                        THEN [@[t] EXCEPT !.searchIndicator = {},
                                          !.matchIndicator = {}]
                        ELSE @[t]]]

\* (faulty variant) what is memorized about the other editors is cleared, their
\* highlights are left
_resetHighlightOtherEditors_NoClear(s, uuid) ==
    [s EXCEPT !.w.editorSearchAttributes =
        [k \in (IF hasEditor(s, uuid) THEN {uuid} ELSE {}) |-> @[k]]]

\* (faulty variant) the record of the given editor is not put back
_resetHighlightOtherEditors_Dropping(s, uuid) ==
    [s EXCEPT !.e = [t \in DOMAIN @ |->
                        IF /\ t \in DOMAIN s.w.editorSearchAttributes
                           /\ t # uuid /\ getWidgetByUUID(s, t) # None
                        THEN [@[t] EXCEPT !.searchIndicator = {},
                                          !.matchIndicator = {}]
                        ELSE @[t]],
              !.w.editorSearchAttributes = <<>>]

\* FindReplaceBase._resetHighlightOtherEditors
_resetHighlightOtherEditors(s, uuid) ==
    LET others == {k \in DOMAIN s.w.editorSearchAttributes :
                      k # uuid /\ getWidgetByUUID(s, k) # None}
        kept == IF hasEditor(s, uuid) THEN {uuid} ELSE {}
    IN  [s EXCEPT !.e = [t \in DOMAIN @ |->
                            IF t \in others
                            THEN [@[t] EXCEPT !.searchIndicator = {},
                                              !.matchIndicator = {}]
                            ELSE @[t]],
                  !.w.editorSearchAttributes = [k \in kept |-> @[k]]]

\* (faulty variant) the record is written anew at every search
_initialiseSearchAttributes_Anew(s, uuid) ==
    add(s, uuid, [line |-> s.e[s.w._currentWidget].cursor[1],
                  pos |-> s.e[s.w._currentWidget].cursor[2],
                  firstLine |-> s.e[s.w._editor].firstVisible,
                  match |-> NoMatch])

\* FindReplaceBase._initialiseSearchAttributes
_initialiseSearchAttributes(s, uuid) ==
    IF hasEditor(s, uuid) THEN s
    ELSE add(s, uuid, [line |-> s.e[s.w._currentWidget].cursor[1],
                       pos |-> s.e[s.w._currentWidget].cursor[2],
                       firstLine |-> s.e[s.w._editor].firstVisible,
                       match |-> NoMatch])

\* the branch of _performSearch taken when a match is found: the match is
\* selected from its end to its start and shown
selectMatch(s, matchTarget) ==
    incSearchDone(
        ensureLineOnScreen(
            setSelection(s, s.w._editor, matchTarget[1], matchTarget[2]),
            s.w._editor, matchTarget[1]),
        TRUE)

\* _performSearch from the point where the record of the editor is there:
\* searchAttributes is the record, matchTarget what editor.highlightMatch
\* gives back
_performSearchFrom(s3, searchAttributes, matchTarget, fromScratch) ==
    LET text == s3.w.findText
        ed == s3.w._editor
        uuid == s3.w._editorUUID
        \* highlightMatch and the assignment of the match
        s4 == [paintMatches(s3, ed, text, matchTarget, TRUE)
                  EXCEPT !.w.editorSearchAttributes[uuid].match = matchTarget]
    IN  IF ~fromScratch
        THEN IF text = Empty
             THEN \* Remove the highlight and scroll back
                  LET c1 == clearSearchIndicators(s3, ed)
                      c2 == setCursorPosition(c1, ed, searchAttributes.line,
                                              searchAttributes.pos)
                      c3 == ensureLineOnScreen(c2, ed,
                                               searchAttributes.firstLine)
                      c4 == [c3 EXCEPT
                               !.w.editorSearchAttributes[uuid].match = NoMatch]
                  IN  incSearchDone(c4, FALSE)
             ELSE IF matchTarget # NoMatch
                  THEN selectMatch(s4, matchTarget)
                  ELSE \* Nothing is found, so scroll back to the original
                       LET n1 == setCursorPosition(s4, ed,
                                                   searchAttributes.line,
                                                   searchAttributes.pos)
                           n2 == ensureLineOnScreen(n1, ed,
                                                    searchAttributes.firstLine)
                       IN  incSearchDone(n2, FALSE)
        ELSE \* Brand new editor to search in
             IF text = Empty THEN incSearchDone(s3, FALSE)
             ELSE IF matchTarget # NoMatch
                  THEN selectMatch(s4, matchTarget)
                  ELSE incSearchDone(s4, FALSE)

\* (faulty variant) the match is looked for from the start of the text
_performSearch_Wrapping(s, fromScratch) ==
    IF ~s.w._isTextEditor THEN s
    ELSE The({_performSearchFrom(
                  s3, get(s3, s.w._editorUUID),
                  matchFrom(s3, s.w._editor, s.w.findText, 0, 0),
                  fromScratch) :
              s3 \in {_initialiseSearchAttributes(
                          IF fromScratch THEN delete(s, s.w._editorUUID) ELSE s,
                          s.w._editorUUID)}})

\* FindReplaceBase._performSearch
_performSearch(s, fromScratch) ==
    IF ~s.w._isTextEditor THEN s
    ELSE
    LET uuid == s.w._editorUUID
        s1 == [s EXCEPT !.w.findNextButton = (s.w.findText # Empty),
                        !.w.findPrevButton = (s.w.findText # Empty)]
        s2 == IF fromScratch THEN delete(s1, uuid) ELSE s1
    IN  The({_performSearchFrom(
                 s3, get(s3, uuid),
                 matchFrom(s3, s.w._editor, s.w.findText,
                           get(s3, uuid).line, get(s3, uuid).pos),
                 fromScratch) :
             s3 \in {_initialiseSearchAttributes(s2, uuid)}})

\* (faulty variants) the change starts the search from scratch
_onEditTextChanged_Scratch(s) ==
    _performSearch(_resetHighlightOtherEditors(s, s.w._editorUUID), TRUE)

_onCheckBoxChange_Scratch(s) ==
    _performSearch(_resetHighlightOtherEditors(s, s.w._editorUUID), TRUE)

\* FindReplaceBase._onEditTextChanged and _onCheckBoxChange (self._skip is
\* False whenever the user is the one who changes the field)
_onEditTextChanged(s) ==
    _performSearch(_resetHighlightOtherEditors(s, s.w._editorUUID), FALSE)

_onCheckBoxChange(s) ==
    _performSearch(_resetHighlightOtherEditors(s, s.w._editorUUID), FALSE)

\* FindReplaceBase.show; startHiddenSearch is the same without the
\* activation of the widget
FindReplaceBase_show(s, text) ==
    _performSearch([s EXCEPT !.w.findItems = s.w.findHistory,
                             !.w.findText = text,
                             !.w.isRegexp = FALSE,
                             !.w._findBackward = FALSE,
                             !.w.visible = TRUE], TRUE)

\* (faulty variant) the direction and the regexp option are left alone
startHiddenSearch_NoReset(s, text) ==
    _performSearch([s EXCEPT !.w.findItems = s.w.findHistory,
                             !.w.findText = text], TRUE)

startHiddenSearch(s, text) ==
    _performSearch([s EXCEPT !.w.findItems = s.w.findHistory,
                             !.w.findText = text,
                             !.w.isRegexp = FALSE,
                             !.w._findBackward = FALSE], TRUE)

\* (faulty variant) the new match is highlighted and selected, the record
\* is not told
_advanceMatchIndicator_NoMemo(s, uuid, newLine, newPos, newLength) ==
    IF ~hasEditor(s, uuid) \/ getWidgetByUUID(s, uuid) = None THEN s
    ELSE ensureLineOnScreen(
             setSelection(
                 paintMatches(s, getWidgetByUUID(s, uuid), s.w.findText,
                              <<newLine, newPos, newLength>>, TRUE),
                 getWidgetByUUID(s, uuid), newLine, newPos),
             getWidgetByUUID(s, uuid), newLine)

\* FindReplaceBase._advanceMatchIndicator
_advanceMatchIndicator(s, uuid, newLine, newPos, newLength) ==
    IF ~hasEditor(s, uuid) \/ getWidgetByUUID(s, uuid) = None THEN s
    ELSE
    LET ed == getWidgetByUUID(s, uuid)
        txt == s.e[ed].text
        match == get(s, uuid).match
        old == IF match # NoMatch
               THEN {positionFromLineIndex(txt, match[1], match[2])} ELSE {}
        tgtPos == positionFromLineIndex(txt, newLine, newPos)
        s1 == [s EXCEPT
                 !.w.editorSearchAttributes[uuid].match =
                     <<newLine, newPos, newLength>>,
                 !.e[ed].searchIndicator = (@ \cup old) \ {tgtPos},
                 !.e[ed].matchIndicator = (@ \ old) \cup {tgtPos}]
        s2 == setSelection(s1, ed, newLine, newPos)
    IN  ensureLineOnScreen(s2, ed, newLine)

\* __searchFrom from the point where the targets are known: first are the
\* targets of the first range, second those of the range behind the wrap
__searchFromTargets(s, first, second) ==
    LET uuid == s.w._editorUUID
        s1 == paintMatches(s, s.w._editor, s.w.findText, NoMatch, FALSE)
        s2 == IF Len(first) = 0
              THEN showStatusBarMessage(s1,
                       IF s.w._findBackward
                       THEN "Reached the beginning of the document. Searching from the end..."
                       ELSE "Reached the end of the document. Searching from the beginning...")
              ELSE s1
        targets == IF Len(first) = 0 THEN second ELSE first
        index == IF s.w._findBackward THEN Len(targets) ELSE 1
    IN  IF Len(targets) = 0
        THEN <<[s2 EXCEPT !.w.editorSearchAttributes[uuid].match = NoMatch],
               FALSE>>
        ELSE <<_advanceMatchIndicator(s2, uuid, targets[index][1],
                                      targets[index][2], targets[index][3]),
               TRUE>>

\* FindReplaceBase.__searchFrom: <<state, found>>
__searchFrom(s, startLine, startPos) ==
    LET txt == s.e[s.w._editor].text
        after == getTargets(txt, s.w.findText, opts(s),
                            startLine, startPos, -1, -1)
        before == getTargets(txt, s.w.findText, opts(s),
                             0, 0, startLine, startPos)
    IN  IF s.w._findBackward
        THEN __searchFromTargets(s, before, after)
        ELSE __searchFromTargets(s, after, before)

\* (faulty variant) the current match is not skipped
searchStartPos_NoSkip(s) == s.e[s.w._currentWidget].cursor[2]

\* the search start point of __findNextPrev: the cursor, moved behind the
\* current match when the cursor is on it and the search goes forward
searchStartPos(s) ==
    LET ed == s.w._editor
        startLine == s.e[s.w._currentWidget].cursor[1]
        startPos == s.e[s.w._currentWidget].cursor[2]
        match == get(s, s.w._editorUUID).match
    IN  IF /\ hasEditor(s, s.w._editorUUID)
           /\ startLine = match[1] /\ startPos = match[2]
           /\ ~s.w._findBackward
        THEN startPos + Len(stringAt(s.e[ed].text,
                 positionFromLineIndex(s.e[ed].text, startLine, startPos),
                 match[3]))
        ELSE startPos

\* (faulty variant) the start position is left where it was
changedStartPos_Kept(s) == get(s, s.w._editorUUID)

\* the record of __findNextPrev after a match has been found: the start
\* position becomes the place of the cursor
changedStartPos(s) ==
    [get(s, s.w._editorUUID) EXCEPT
        !.line = s.e[s.w._currentWidget].cursor[1],
        !.pos = s.e[s.w._currentWidget].cursor[2],
        !.firstLine = s.e[s.w._editor].firstVisible]

\* FindReplaceBase.__findNextPrev: <<state, found>>
__findNextPrev(s) ==
    IF ~s.w._isTextEditor THEN <<s, FALSE>>
    ELSE
    LET ed == s.w._editor
        uuid == s.w._editorUUID
        startLine == s.e[s.w._currentWidget].cursor[1]
        curPos == s.e[s.w._currentWidget].cursor[2]
        onMatch == /\ hasEditor(s, uuid)
                   /\ startLine = get(s, uuid).match[1]
                   /\ curPos = get(s, uuid).match[2]
        \* the record is started anew unless the cursor is on the match
        s1 == IF onMatch THEN s
              ELSE add(s, uuid, [line |-> startLine, pos |-> curPos,
                                 firstLine |-> s.e[ed].firstVisible,
                                 match |-> NoMatch])
    IN  The({IF r[2]
             THEN \* Something new has been found - change the start pos
                  <<[r[1] EXCEPT !.w.editorSearchAttributes[uuid] =
                                     changedStartPos(r[1])],
                    TRUE>>
             ELSE <<r[1], FALSE>> :
             r \in {__searchFrom(s1, startLine, searchStartPos(s))}})

\* (faulty variant) the kind of the current tab is not looked at
onPrevNext_AnyTab(s) == s.w.findText # Empty

\* FindReplaceBase.onPrevNext
onPrevNext(s) ==
    /\ s.w.findText # Empty
    /\ getType(s.m.current) \in SearchableTypes

\* (faulty variant) a search which finds nothing reports nothing
FindReplaceBase_onNextPrev_Silent(s, backward) ==
    IF ~onPrevNext(s) THEN s
    ELSE The({IF ~r[2] THEN r[1] ELSE incSearchDone(r[1], TRUE) :
              r \in {__findNextPrev([s EXCEPT !.w._findBackward = backward])}})

\* FindReplaceBase.onNext and onPrev
FindReplaceBase_onNextPrev(s, backward) ==
    IF ~onPrevNext(s) THEN s
    ELSE The({IF ~r[2]
              THEN incSearchDone(
                       showStatusBarMessage(r[1], "No matches found"), FALSE)
              ELSE incSearchDone(r[1], TRUE) :
              r \in {__findNextPrev([s EXCEPT !.w._findBackward = backward])}})

FindReplaceBase_onNext(s) == FindReplaceBase_onNextPrev(s, FALSE)

FindReplaceBase_onPrev(s) == FindReplaceBase_onNextPrev(s, TRUE)

Range(seq) == {seq[i] : i \in 1..Len(seq)}

\* list.remove: the first entry equal to text is taken out
RemoveFirst(history, text) ==
    LET i == CHOOSE j \in 1..Len(history) :
                 history[j] = text /\ \A k \in 1..(j - 1) : history[k] # text
    IN  SubSeq(history, 1, i - 1) \o SubSeq(history, i + 1, Len(history))

\* (faulty variant) the entry is put in front, the old copy stays
historyInsert_Duplicating(history, text) == <<text>> \o history

\* the history list after _addToHistory: the list is changed in place,
\* the cut to maxHistory entries is made on a local name only
historyInsert(history, text) ==
    IF text \in Range(history)
    THEN IF history[1] # text
         THEN <<text>> \o RemoveFirst(history, text)
         ELSE history
    ELSE <<text>> \o history

\* the value _addToHistory returns
historyChanges(history, text) ==
    \/ text \notin Range(history)
    \/ history[1] # text
    \/ Len(historyInsert(history, text)) > maxHistory

\* the items _addToHistory puts into the combo box
historyItems(history, text) ==
    The({IF Len(h) > maxHistory THEN SubSeq(h, 1, maxHistory) ELSE h :
         h \in {historyInsert(history, text)}})

\* the edit text of a combo box after clear() and addItems(items)
editTextOf(items) == IF Len(items) = 0 THEN Empty ELSE items[1]

\* ReplaceWidget.__updateReplaceAllButtonStatus
__updateReplaceAllButtonStatus(s) ==
    [s EXCEPT !.w.replaceCombo = s.w._isTextEditor,
              !.w.replaceAllButton = s.w._isTextEditor /\ s.w.findText # Empty]

\* ReplaceWidget.__onReplaceTextChanged, connected to the editTextChanged
\* signal of the replace combo box
__onReplaceTextChanged(s) ==
    LET s1 == __updateReplaceAllButtonStatus(s)
    IN  [s1 EXCEPT !.w.replaceButton = s.w.__replaceCouldBeEnabled,
                   !.w.replaceAndMoveButton = s.w.__replaceCouldBeEnabled]

\* FindReplaceBase._addToHistory for the find combo box
_addToHistoryFind(s, text) ==
    The({[s EXCEPT !.w.findHistory = historyInsert(@, text),
                   !.w.findItems = items,
                   !.w.findText = editTextOf(items)] :
         items \in {historyItems(s.w.findHistory, text)}})

\* FindReplaceBase._addToHistory for the replace combo box; the edit text
\* of that box changes without self._skip being looked at
_addToHistoryReplace(s, text) ==
    The({LET s1 == [s EXCEPT !.w.replaceHistory = historyInsert(@, text),
                             !.w.replaceItems = items,
                             !.w.replaceText = editTextOf(items)]
         IN  IF s.w.replaceText # Empty \/ editTextOf(items) # Empty
             THEN __onReplaceTextChanged(s1)
             ELSE s1 :
         items \in {historyItems(s.w.replaceHistory, text)}})

(***************************************************************************)
(* FindWidget                                                              *)
(***************************************************************************)
\* FindWidget.__updateFindHistory
__updateFindHistory(s) ==
    IF s.w.findText # Empty
    THEN The({IF historyChanges(s.w.findHistory, s.w.findText)
              THEN [s1 EXCEPT !.p.findHistory = s1.w.findHistory,
                              !.o.persisted = @ + 1]
              ELSE s1 :
              s1 \in {_addToHistoryFind(s, s.w.findText)}})
    ELSE s

FindWidget_onNext(s) == __updateFindHistory(FindReplaceBase_onNext(s))

FindWidget_onPrev(s) == __updateFindHistory(FindReplaceBase_onPrev(s))

(***************************************************************************)
(* ReplaceWidget                                                           *)
(***************************************************************************)
\* number of connections to one signal the model follows
MaxConnections == 2

\* ReplaceWidget.__subscribeToCursorChangePos
__subscribeToCursorChangePos(s) ==
    IF s.w._editor # None
    THEN [s EXCEPT !.e[s.w._editor].connections = @ + 1,
                   !.w.__connected = TRUE]
    ELSE s

\* ReplaceWidget.__unsubscribeFromCursorChange
__unsubscribeFromCursorChange(s) ==
    IF s.w._editor # None
    THEN [s EXCEPT !.e[s.w._editor].connections = IF @ > 0 THEN @ - 1 ELSE 0,
                   !.w.__connected = FALSE]
    ELSE s

\* ReplaceWidget.updateStatus: the replace buttons of a tab which is no
\* annotate viewer
__updateReplaceButtons(s2) ==
    IF s2.w._isTextEditor
    THEN __cursorPositionChanged(s2)
    ELSE [s2 EXCEPT !.w.replaceButton = FALSE,
                    !.w.replaceAndMoveButton = FALSE,
                    !.w.__replaceCouldBeEnabled = FALSE]

\* ReplaceWidget.updateStatus: the connection to the cursor signal
__resubscribe(s3) ==
    __subscribeToCursorChangePos(
        IF s3.w.__connected THEN __unsubscribeFromCursorChange(s3) ELSE s3)

\* ReplaceWidget.updateStatus after the call of the base class
ReplaceWidget_updateStatusFrom(s1) ==
    IF getType(s1.w._currentWidget) = "VCSAnnotateViewer"
    THEN [s1 EXCEPT !.w.findtextCombo = FALSE,
                    !.w.findPrevButton = FALSE,
                    !.w.findNextButton = FALSE,
                    !.w.checkBoxes = FALSE,
                    !.w.replaceCombo = FALSE,
                    !.w.replaceAllButton = FALSE,
                    !.w.replaceButton = FALSE,
                    !.w.replaceAndMoveButton = FALSE]
    ELSE __resubscribe(
             __updateReplaceButtons(__updateReplaceAllButtonStatus(s1)))

\* ReplaceWidget.updateStatus
ReplaceWidget_updateStatus(s) ==
    ReplaceWidget_updateStatusFrom(FindReplaceBase_updateStatus(s))

\* ReplaceWidget.show
ReplaceWidget_show(s, text) ==
    LET s1 == [s EXCEPT !.w.replaceItems = s.w.replaceHistory,
                        !.w.replaceText = Empty]
        s2 == IF s.w.replaceText # Empty \/ editTextOf(s.w.replaceHistory) # Empty
              THEN __onReplaceTextChanged(s1)
              ELSE s1
    IN  __subscribeToCursorChangePos(FindReplaceBase_show(s2, text))

\* ReplaceWidget.hide
ReplaceWidget_hide(s) ==
    LET s1 == IF s.w.__connected THEN __unsubscribeFromCursorChange(s) ELSE s
    IN  [s1 EXCEPT !.w.visible = FALSE]

\* ReplaceWidget.__updateReplaceHistory
__updateReplaceHistory(s, text, replaceText) ==
    The({IF \/ historyChanges(s.w.findHistory, text)
            \/ historyChanges(s.w.replaceHistory, replaceText)
         THEN [s2 EXCEPT !.p.findHistory = s2.w.findHistory,
                         !.p.replaceHistory = s2.w.replaceHistory,
                         !.o.persisted = @ + 1]
         ELSE s2 :
         s2 \in {_addToHistoryReplace(_addToHistoryFind(s, text),
                                      replaceText)}})

\* (faulty variant) the search is never made a second time
ReplaceWidget_onNextFrom_Once(s1, oldLine, oldPos) == s1

\* ReplaceWidget.onNext after the call of the base class: the search is
\* made once more when the cursor has not moved
ReplaceWidget_onNextFrom(s1, oldLine, oldPos) ==
    IF <<oldLine, oldPos>> = s1.e[s1.w._currentWidget].cursor
    THEN FindReplaceBase_onNext(s1)
    ELSE s1

\* ReplaceWidget.__updateReplaceHistory with the texts of the two fields
__updateReplaceHistoryOfFields(s) ==
    __updateReplaceHistory(s, s.w.findText, s.w.replaceText)

\* ReplaceWidget.onNext
ReplaceWidget_onNext(s) ==
    __updateReplaceHistoryOfFields(
        ReplaceWidget_onNextFrom(FindReplaceBase_onNext(s),
                                 s.e[s.w._currentWidget].cursor[1],
                                 s.e[s.w._currentWidget].cursor[2]))

\* ReplaceWidget.onPrev
ReplaceWidget_onPrev(s) ==
    __updateReplaceHistoryOfFields(FindReplaceBase_onPrev(s))

\* offset of the first match at or after offset from, -1 if there is none
\* (editor.findFirstTarget / findNextTarget)
findTargetFrom(txt, what, o, from) ==
    LET found == ScanTargets(txt, what, o, from, Len(txt))
    IN  IF Len(found) = 0 THEN -1 ELSE found[1][1]

\* where an offset of the text goes when length characters at p are
\* replaced by n characters
shiftOffset(c, p, length, n) ==
    IF c <= p THEN c
    ELSE IF c >= p + length THEN c + n - length
    ELSE p + n

\* the indicators of a replaced target go away, the ones behind it move
movedOffsets(set, p, length, n) ==
    {shiftOffset(q, p, length, n) :
        q \in {x \in set : x < p \/ x >= p + length}}

\* what the editor notes for its undo: a replacement with its place, the
\* text it removed and the text it put there, or the begin / the end of
\* an undo action
undoEntry(action, p, removed, inserted) ==
    [action |-> action, at |-> p, removed |-> removed, inserted |-> inserted]

\* editor.replaceTarget: the target at p is replaced, the cursor and the
\* indicators behind it move with the text
replaceTarget(s, ed, p, length, replaceText) ==
    LET txt == s.e[ed].text
        c == positionFromLineIndex(txt, s.e[ed].cursor[1], s.e[ed].cursor[2])
    IN  The({setCursorPosition(
                 [s EXCEPT !.e[ed].text = new,
                           !.e[ed].searchIndicator =
                               movedOffsets(@, p, length, Len(replaceText)),
                           !.e[ed].matchIndicator =
                               movedOffsets(@, p, length, Len(replaceText)),
                           !.o.undo = Append(@, undoEntry("replaceTarget", p,
                                                 SubSeq(txt, p + 1, p + length),
                                                 replaceText))],
                 ed, li[1], li[2]) :
             new \in {SubSeq(txt, 1, p) \o replaceText \o
                      SubSeq(txt, p + length + 1, Len(txt))},
             li \in {lineIndexFromPosition(
                        SubSeq(txt, 1, p) \o replaceText \o
                        SubSeq(txt, p + length + 1, Len(txt)),
                        shiftOffset(c, p, length, Len(replaceText)))}})

beginUndoAction(s) ==
    [s EXCEPT !.o.undo = Append(@, undoEntry("beginUndoAction", 0, <<>>, <<>>))]

endUndoAction(s) ==
    [s EXCEPT !.o.undo = Append(@, undoEntry("endUndoAction", 0, <<>>, <<>>))]

\* the text after the noted entries from the k-th one backwards have been
\* taken back, up to the begin of the undo action the k-th entry ends
\* (depth counts the undo actions which are open)
RECURSIVE revert(_, _, _, _)
revert(txt, log, k, depth) ==
    IF k = 0 THEN txt
    ELSE The({The({IF d <= 0 THEN t ELSE revert(t, log, k - 1, d) :
                   t \in {IF log[k].action = "replaceTarget"
                          THEN SubSeq(txt, 1, log[k].at) \o log[k].removed \o
                               SubSeq(txt, log[k].at + Len(log[k].inserted) + 1,
                                      Len(txt))
                          ELSE txt}}) :
              d \in {IF log[k].action = "endUndoAction" THEN depth + 1
                     ELSE IF log[k].action = "beginUndoAction" THEN depth - 1
                     ELSE depth}})

\* editor.undo: one undo takes back the last noted step, an undo action
\* as a whole
undo(txt, log) == revert(txt, log, Len(log), 0)

\* (faulty variant) the loop ends after the first replacement
replaceLoop_Once(s, ed, p, count) ==
    IF p = -1 THEN <<s, count>>
    ELSE <<replaceTarget(s, ed, p, Len(s.w.findText), s.w.replaceText),
           count + 1>>

\* the loop of __onReplaceAll: <<state, count>>
RECURSIVE replaceLoop(_, _, _, _)
replaceLoop(s, ed, p, count) ==
    IF p = -1 THEN <<s, count>>
    ELSE The({replaceLoop(s1, ed,
                          findTargetFrom(s1.e[ed].text, s.w.findText, opts(s),
                                         p + Len(s.w.replaceText)),
                          count + 1) :
              s1 \in {replaceTarget(s, ed, p, Len(s.w.findText),
                                    s.w.replaceText)}})

\* str(count) + " occurrence" + suffix + " replaced."
CountText(n) ==
    ToString(n) \o " occurrence" \o (IF n > 1 THEN "s" ELSE "") \o " replaced."

\* (faulty variant) the undo action is not closed
__onReplaceAllFrom_NoEnd(s1, found) ==
    IF found = -1
    THEN showStatusBarMessage(s1, "No matches found. Nothing is replaced.")
    ELSE The({showStatusBarMessage(
                  [r[1] EXCEPT
                      !.w.replaceButton = FALSE,
                      !.w.replaceAndMoveButton = FALSE,
                      !.w.__replaceCouldBeEnabled = FALSE,
                      !.o.count = r[2]],
                  CountText(r[2])) :
              r \in {replaceLoop(beginUndoAction(s1), s1.w._editor, found, 0)}})

\* editor.findFirstTarget from (line, pos): offset of the target, -1 if
\* there is none
findFirstTarget(s, ed, text, line, pos) ==
    The({findTargetFrom(s.e[ed].text, text, opts(s),
                        positionFromLineIndex(s.e[ed].text, origin[1],
                                              origin[2])) :
         origin \in {ClampLineIndex(s.e[ed].text, line, pos)}})

\* __onReplaceAll after the update of the histories: found is the offset
\* of the first target, -1 if there is none
__onReplaceAllFrom(s1, found) ==
    IF found = -1
    THEN showStatusBarMessage(s1, "No matches found. Nothing is replaced.")
    ELSE The({showStatusBarMessage(
                  [endUndoAction(r[1]) EXCEPT
                      !.w.replaceButton = FALSE,
                      !.w.replaceAndMoveButton = FALSE,
                      !.w.__replaceCouldBeEnabled = FALSE,
                      !.o.count = r[2]],
                  CountText(r[2])) :
              r \in {replaceLoop(beginUndoAction(s1), s1.w._editor, found, 0)}})

\* ReplaceWidget.__onReplaceAll
__onReplaceAll(s) ==
    IF s.w._editor = None
    THEN \* None has no findFirstTarget
         [s EXCEPT !.o.fault = "AttributeError"]
    ELSE The({__onReplaceAllFrom(
                  s1, findFirstTarget(s1, s.w._editor, s.w.findText, 0, 0)) :
              s1 \in {__updateReplaceHistory(s, s.w.findText,
                                             s.w.replaceText)}})

\* (faulty variant) the substitution is made within an undo action
__onReplaceFrom_Bracketed(s1, text, replaceText, match, found) ==
    IF found = -1 THEN s1
    ELSE LET ed == s1.w._editor
             uuid == s1.w._editorUUID
             s2 == endUndoAction(
                       replaceTarget(beginUndoAction(s1), ed, found, Len(text),
                                     replaceText))
             s3 == showStatusBarMessage(s2, "1 occurrence replaced.")
             s4 == [s3 EXCEPT !.w.editorSearchAttributes[uuid].match[2] =
                                  @ + Len(replaceText)]
             s5 == setCursorPosition(s4, ed, match[1],
                                     match[2] + Len(replaceText))
             s6 == [s5 EXCEPT !.w.replaceButton = FALSE,
                              !.w.replaceAndMoveButton = FALSE]
         IN  [s6 EXCEPT !.w.editorSearchAttributes[uuid].match = NoMatch]

\* __onReplace after the update of the histories: match is the lastMatch
\* of the record, found the offset of the first target at or after it, -1
\* if there is none
__onReplaceFrom(s1, text, replaceText, match, found) ==
    IF found = -1 THEN s1
    ELSE LET ed == s1.w._editor
             uuid == s1.w._editorUUID
             s2 == replaceTarget(s1, ed, found, Len(text), replaceText)
             s3 == showStatusBarMessage(s2, "1 occurrence replaced.")
             s4 == [s3 EXCEPT !.w.editorSearchAttributes[uuid].match[2] =
                                  @ + Len(replaceText)]
             s5 == setCursorPosition(s4, ed, match[1],
                                     match[2] + Len(replaceText))
             s6 == [s5 EXCEPT !.w.replaceButton = FALSE,
                              !.w.replaceAndMoveButton = FALSE]
         IN  [s6 EXCEPT !.w.editorSearchAttributes[uuid].match = NoMatch]

\* ReplaceWidget.__onReplace
__onReplace(s) ==
    IF ~hasEditor(s, s.w._editorUUID)
    THEN \* SearchSupport.get raises KeyError
         [s EXCEPT !.o.fault = "KeyError"]
    ELSE The({__onReplaceFrom(
                  s1, s.w.findText, s.w.replaceText,
                  get(s, s.w._editorUUID).match,
                  findFirstTarget(s1, s.w._editor, s.w.findText,
                                  get(s, s.w._editorUUID).match[1],
                                  get(s, s.w._editorUUID).match[2])) :
              s1 \in {__updateReplaceHistory(s, s.w.findText,
                                             s.w.replaceText)}})

\* ReplaceWidget.__onReplaceAndMove
__onReplaceAndMove(s) ==
    The({IF s1.o.fault # NoFault THEN s1 ELSE ReplaceWidget_onNext(s1) :
         s1 \in {__onReplace(s)}})

(***************************************************************************)
(* Events.  Each one runs a handler of the widget to its end.              *)
(***************************************************************************)
Apply(s) ==
    /\ widget' = s.w
    /\ editors' = s.e
    /\ manager' = s.m
    /\ project' = s.p
    /\ output' = s.o

\* the editors manager has told the widget which tab is the current one
Notified == widget._currentWidget # None

updateStatus(s) ==
    IF s.w.cls = "ReplaceWidget" THEN ReplaceWidget_updateStatus(s)
    ELSE FindReplaceBase_updateStatus(s)

\* the current tab changes: the editors manager calls updateStatus
ActivateTab(t) ==
    /\ t \in manager.open \cup {Welcome}
    /\ t # manager.current \/ ~Notified
    /\ editors[t].connections < MaxConnections
    /\ Apply(updateStatus([Begin(World, "updateStatus") EXCEPT !.m.current = t]))

\* a closed tab leaves no editor behind
closedEditor == [text |-> Empty, cursor |-> <<0, 0>>, firstVisible |-> 0,
                 searchIndicator |-> {}, matchIndicator |-> {},
                 connections |-> 0]

\* a tab is closed: sigTabClosed reaches __onTabClosed; when it was the
\* current tab another one becomes current and updateStatus is called
CloseTab(t, next) ==
    /\ Notified
    /\ t \in manager.open
    /\ next \in (manager.open \ {t}) \cup {Welcome}
    /\ t # manager.current => next = manager.current
    /\ LET s1 == __onTabClosed(Begin(World, "tabClosed"), t)
           s2 == [s1 EXCEPT !.m.open = @ \ {t}, !.m.current = next,
                            !.e[t] = closedEditor]
       IN  Apply(IF t = manager.current THEN updateStatus(s2) ELSE s2)

Show(text) ==
    /\ Notified
    /\ widget._editor # None => editors[widget._editor].connections < MaxConnections
    /\ Apply(IF widget.cls = "ReplaceWidget"
             THEN ReplaceWidget_show(Begin(World, "show"), text)
             ELSE FindReplaceBase_show(Begin(World, "show"), text))

StartHiddenSearch(text) ==
    /\ Notified
    /\ Apply(startHiddenSearch(Begin(World, "startHiddenSearch"), text))

\* the user edits the find field
EditText(text) ==
    /\ Notified /\ widget.visible /\ widget.findtextCombo
    /\ text # widget.findText
    /\ Apply(_onEditTextChanged(
                 [Begin(World, "editText") EXCEPT !.w.findText = text]))

\* the user toggles one of the check boxes
ToggleCheckBox(box) ==
    /\ Notified /\ widget.visible /\ widget.checkBoxes
    /\ Apply(_onCheckBoxChange(
                 [Begin(World, "checkBox") EXCEPT !.w[box] = ~@]))

onNext(s) ==
    IF s.w.cls = "ReplaceWidget" THEN ReplaceWidget_onNext(s)
    ELSE FindWidget_onNext(s)

onPrev(s) ==
    IF s.w.cls = "ReplaceWidget" THEN ReplaceWidget_onPrev(s)
    ELSE FindWidget_onPrev(s)

OnNext ==
    /\ Notified
    /\ Apply(onNext(Begin(World, "onNext")))

OnPrev ==
    /\ Notified
    /\ Apply(onPrev(Begin(World, "onPrev")))

\* (faulty variant) Return always searches forward
__findByReturnPressed_Forward(s) == onNext(s)

\* FindReplaceBase.__findByReturnPressed
__findByReturnPressed(s) == IF s.w._findBackward THEN onPrev(s) ELSE onNext(s)

ReturnPressed ==
    /\ Notified /\ widget.visible /\ widget.findtextCombo
    /\ Apply(__findByReturnPressed(Begin(World, "returnPressed")))

hide(s) ==
    IF s.w.cls = "ReplaceWidget" THEN ReplaceWidget_hide(s)
    ELSE [s EXCEPT !.w.visible = FALSE]

\* (faulty variant) the cursor is put back to the start position before the
\* start positions are cleaned
keyPressEvent_Restoring(s) ==
    hide(clearStartPositions(
             IF hasEditor(s, s.w._editorUUID)
             THEN ensureLineOnScreen(
                      setCursorPosition(s, s.w._editor,
                                        get(s, s.w._editorUUID).line,
                                        get(s, s.w._editorUUID).pos),
                      s.w._editor, get(s, s.w._editorUUID).firstLine)
             ELSE s))

\* FindReplaceBase.keyPressEvent with the Escape key
keyPressEvent(s) == hide(clearStartPositions(s))

Escape ==
    /\ Notified /\ widget.visible
    /\ Apply(keyPressEvent(Begin(World, "escape")))

\* the close button of the widget
Hide ==
    /\ Notified /\ widget.visible
    /\ Apply(hide(Begin(World, "hide")))

\* the user puts the cursor of the current editor somewhere else
MoveCursor(line, index) ==
    /\ Notified
    /\ getType(manager.current) \in SearchableTypes
    /\ ValidLineIndex(editors[manager.current].text, line, index)
    /\ <<line, index>> # editors[manager.current].cursor
    /\ Apply(ensureLineOnScreen(
                 setCursorPosition(Begin(World, "moveCursor"),
                                   manager.current, line, index),
                 manager.current, line))

\* the user edits the replace field
EditReplaceText(text) ==
    /\ Notified /\ widget.visible /\ widget.cls = "ReplaceWidget"
    /\ widget.replaceCombo
    /\ text # widget.replaceText
    /\ Apply(__onReplaceTextChanged(
                 [Begin(World, "editReplaceText") EXCEPT !.w.replaceText = text]))

\* longest text the model follows
MaxTextLen == 6

\* the text a replacement leaves stays within the followed lengths
Fits(s) == \A t \in Tabs : Len(s.e[t].text) <= MaxTextLen

OnReplace ==
    /\ Notified /\ widget.visible /\ widget.cls = "ReplaceWidget"
    /\ widget.replaceButton
    /\ Fits(__onReplace(Begin(World, "onReplace")))
    /\ Apply(__onReplace(Begin(World, "onReplace")))

\* the replace-and-move button, or Return in the replace field
OnReplaceAndMove ==
    /\ Notified /\ widget.visible /\ widget.cls = "ReplaceWidget"
    /\ widget.replaceAndMoveButton \/ widget.replaceCombo
    /\ Fits(__onReplaceAndMove(Begin(World, "onReplaceAndMove")))
    /\ Apply(__onReplaceAndMove(Begin(World, "onReplaceAndMove")))

OnReplaceAll ==
    /\ Notified /\ widget.visible /\ widget.cls = "ReplaceWidget"
    /\ widget.replaceAllButton
    /\ Fits(__onReplaceAll(Begin(World, "onReplaceAll")))
    /\ Apply(__onReplaceAll(Begin(World, "onReplaceAll")))

(***************************************************************************)
(* Initial states: the widget as __init__ leaves it, with the histories of *)
(* the project; the tabs which are open and their texts.                   *)
(***************************************************************************)
newWidget(cls, findHistory, replaceHistory) ==
    [cls |-> cls, visible |-> FALSE,
     _currentWidget |-> None, _isTextEditor |-> FALSE, _editor |-> None,
     _editorUUID |-> NoUUID,
     findText |-> Empty, replaceText |-> Empty,
     isRegexp |-> FALSE, isCase |-> FALSE, isWord |-> FALSE,
     _findBackward |-> FALSE,
     editorSearchAttributes |-> <<>>,
     findHistory |-> findHistory, findItems |-> <<>>,
     replaceHistory |-> replaceHistory, replaceItems |-> <<>>,
     findtextCombo |-> FALSE, findPrevButton |-> FALSE,
     findNextButton |-> FALSE, checkBoxes |-> FALSE,
     replaceCombo |-> FALSE, replaceButton |-> FALSE,
     replaceAndMoveButton |-> FALSE, replaceAllButton |-> FALSE,
     __replaceCouldBeEnabled |-> FALSE, __connected |-> FALSE]

newEditor(txt) == [closedEditor EXCEPT !.text = txt]

InitWith(classes, opens, texts, findHistories, replaceHistories) ==
    /\ \E cls \in classes, fh \in findHistories, rh \in replaceHistories :
          /\ widget = newWidget(cls, fh, rh)
          /\ project = [findHistory |-> fh, replaceHistory |-> rh]
    /\ \E open \in opens :
          /\ manager = [open |-> open, current |-> Welcome]
          /\ \E tx \in [open -> texts] :
                editors = [t \in Tabs |-> IF t \in open THEN newEditor(tx[t])
                                          ELSE closedEditor]
    /\ output = [op |-> "init", emitted |-> <<>>, messages |-> <<>>,
                 undo |-> <<>>, count |-> 0, fault |-> NoFault,
                 startCursor |-> <<0, 0>>, session |-> NoSession,
                 direction |-> "forward",
                 persisted |-> 0,
                 last |-> [op |-> "init", emitted |-> <<>>,
                           startCursor |-> <<0, 0>>]]

(***************************************************************************)
(* Navigation: one text editor tab, the widget shown once with a query,    *)
(* then Next / Previous / Return and cursor moves.                         *)
(***************************************************************************)
NavTexts == {<<"a", "b", NL, "a", "b">>, <<"b", "a", "b">>}

NavQueries == {<<"a", "b">>, <<"b">>, <<"a", "a">>}

Classes == {"FindWidget", "ReplaceWidget"}

\* every (line, column) of the followed texts
Lines == 0..2
Columns == 0..MaxTextLen

InitNav == InitWith(Classes, {{"A"}}, NavTexts, {<<>>}, {<<>>})

NavActivate == \E t \in Tabs : ActivateTab(t)
NavShow == \E q \in NavQueries : ~widget.visible /\ Show(q)
NavMoveCursor == \E l \in Lines, i \in Columns : MoveCursor(l, i)

NextNav ==
    \/ NavActivate
    \/ NavShow
    \/ OnNext
    \/ OnPrev
    \/ ReturnPressed
    \/ NavMoveCursor

SpecNav == InitNav /\ [][NextNav]_vars

(***************************************************************************)
(* Incremental search: one text editor tab; the cursor is put somewhere,   *)
(* the widget is shown with a query, then the query and the options are    *)
(* changed and Next / Previous are used.                                   *)
(***************************************************************************)
IncText == <<"a", NL, NL, "a", "b">>

IncQueries == {Empty, <<"a">>, <<"b">>}

IncBoxes == {"isWord"}

InitInc == InitWith(Classes, {{"A"}}, {IncText}, {<<>>}, {<<>>})

IncActivate == ~Notified /\ \E t \in Tabs : ActivateTab(t)
IncMoveCursor ==
    \E l \in Lines, i \in Columns : ~widget.visible /\ MoveCursor(l, i)
IncShow == \E q \in IncQueries : ~widget.visible /\ Show(q)
IncEditText == \E q \in IncQueries : EditText(q)
IncToggleCheckBox == \E box \in IncBoxes : ToggleCheckBox(box)

NextInc ==
    \/ IncActivate
    \/ IncMoveCursor
    \/ IncShow
    \/ IncEditText
    \/ IncToggleCheckBox
    \/ OnNext
    \/ OnPrev

SpecInc == InitInc /\ [][NextInc]_vars

(***************************************************************************)
(* Histories: the project hands over histories which are full; the         *)
(* widget is shown, queries and replacement texts are entered and Next,    *)
(* Previous and the replace operations are used.                           *)
(***************************************************************************)
\* the k-th of a row of distinct strings
Word(k) == [i \in 1..k |-> "a"]

\* a history of n distinct entries
Hist(n) == [i \in 1..n |-> Word(i)]

HistText == <<"a", "b">>

HistQueries == {Word(1), Word(maxHistory + 1)}

HistReplacements == {Empty, Word(maxHistory + 1)}

InitHistory ==
    InitWith(Classes, {{"A"}}, {HistText},
             {Hist(maxHistory)}, {Hist(maxHistory)})

HistActivate == ~Notified /\ \E t \in Tabs : ActivateTab(t)
HistShow == \E q \in HistQueries : ~widget.visible /\ Show(q)
HistEditText == \E q \in HistQueries : EditText(q)
HistEditReplaceText == \E r \in HistReplacements : EditReplaceText(r)

NextHistory ==
    \/ HistActivate
    \/ HistShow
    \/ HistEditText
    \/ HistEditReplaceText
    \/ OnNext
    \/ OnPrev
    \/ OnReplace
    \/ OnReplaceAndMove
    \/ OnReplaceAll

SpecHistory == InitHistory /\ [][NextHistory]_vars

(***************************************************************************)
(* Several tabs: two text editor tabs and the Welcome tab; tabs are        *)
(* switched and closed while the Find widget, shown once, searches.        *)
(***************************************************************************)
TabText == <<"b", "a">>

TabQueries == {Empty, <<"a">>}

ShownQueries == {<<"a">>}

TabReplacements == {<<"b">>}

TabBoxes == {"isCase", "isRegexp"}

Init == InitWith({"FindWidget"}, {{"A", "B"}}, {TabText}, {<<>>}, {<<>>})

TabActivate == \E t \in Tabs : ActivateTab(t)
TabClose == \E t \in Docs, next \in Tabs : CloseTab(t, next)
TabShow == \E q \in ShownQueries : ~widget.visible /\ Show(q)
TabStartHiddenSearch == \E q \in ShownQueries : StartHiddenSearch(q)
TabEditText == \E q \in TabQueries : EditText(q)
TabToggleCheckBox == \E box \in TabBoxes : ToggleCheckBox(box)

Next ==
    \/ TabActivate
    \/ TabClose
    \/ TabShow
    \/ TabStartHiddenSearch
    \/ TabEditText
    \/ TabToggleCheckBox
    \/ OnNext
    \/ OnPrev

Spec == Init /\ [][Next]_vars

(***************************************************************************)
(* Replacing with several tabs: the Replace widget is shown once, tabs are *)
(* switched and closed, and the replace operations are used.               *)
(***************************************************************************)
InitReplace ==
    InitWith({"ReplaceWidget"}, {{"A", "B"}}, {TabText}, {<<>>}, {<<>>})

ReplaceEditReplaceText == \E r \in TabReplacements : EditReplaceText(r)

NextReplace ==
    \/ TabActivate
    \/ TabClose
    \/ TabShow
    \/ ReplaceEditReplaceText
    \/ OnNext
    \/ OnReplace
    \/ OnReplaceAndMove
    \/ OnReplaceAll

SpecReplace == InitReplace /\ [][NextReplace]_vars

(***************************************************************************)
(* Replace all: one text editor tab; the cursor is put somewhere, the      *)
(* Replace widget is shown with a query, the query and the replacement     *)
(* are edited and everything is replaced.                                  *)
(***************************************************************************)
AllText == <<"a", "X", "a", "X", "a">>

AllQueries == {<<"a">>, <<"a", "X", "a">>, <<"b">>}

AllReplacements == {Empty, <<"b">>}

InitAll == InitWith({"ReplaceWidget"}, {{"A"}}, {AllText}, {<<>>}, {<<>>})

AllActivate == ~Notified /\ \E t \in Tabs : ActivateTab(t)
AllMoveCursor ==
    \E l \in Lines, i \in Columns : ~widget.visible /\ MoveCursor(l, i)
AllShow == \E q \in AllQueries : ~widget.visible /\ Show(q)
AllEditText == \E q \in AllQueries : EditText(q)
AllEditReplaceText == \E r \in AllReplacements : EditReplaceText(r)

NextAll ==
    \/ AllActivate
    \/ AllMoveCursor
    \/ AllShow
    \/ AllEditText
    \/ AllEditReplaceText
    \/ OnReplaceAll

SpecAll == InitAll /\ [][NextAll]_vars

(***************************************************************************)
(* Closing the panel: two text editor tabs; the widget is shown, used,     *)
(* closed with Escape and shown again.                                     *)
(***************************************************************************)
InitEsc == InitWith({"FindWidget"}, {{"A", "B"}}, {IncText}, {<<>>}, {<<>>})

EscActivate == \E t \in Tabs : ActivateTab(t)
EscMoveCursor ==
    \E l \in Lines, i \in Columns :
        ~widget.visible /\ manager.current = "A" /\ MoveCursor(l, i)
EscShow == \E q \in ShownQueries : ~widget.visible /\ Show(q)
EscEditText == \E q \in TabQueries : EditText(q)

NextEsc ==
    \/ EscActivate
    \/ EscMoveCursor
    \/ EscShow
    \/ EscEditText
    \/ Escape

SpecEsc == InitEsc /\ [][NextEsc]_vars

(***************************************************************************)
(* Direction: one tab whose text has the query three times; the widget is  *)
(* shown, searched from outside and closed with Escape again and again,    *)
(* with Next / Previous / Return in between.                               *)
(***************************************************************************)
DirQueries == {<<"a">>}

DirEdits == {Empty, <<"a">>}

InitDir == InitWith(Classes, {{"A"}}, {AllText}, {<<>>}, {<<>>})

DirActivate == \E t \in Tabs : ActivateTab(t)
DirShow == \E q \in DirQueries : ~widget.visible /\ Show(q)
DirStartHiddenSearch == \E q \in DirQueries : StartHiddenSearch(q)
DirEditText == \E q \in DirEdits : EditText(q)

NextDir ==
    \/ DirActivate
    \/ DirShow
    \/ DirStartHiddenSearch
    \/ DirEditText
    \/ OnNext
    \/ OnPrev
    \/ ReturnPressed
    \/ Escape

SpecDir == InitDir /\ [][NextDir]_vars

(***************************************************************************)
(* Single replace: one tab whose text is the query three times in a row;   *)
(* the Replace widget is shown once with a query, the replace field is     *)
(* edited and the three replace buttons pressed, with Next in between; the *)
(* cursor is put somewhere before the widget is shown.                     *)
(***************************************************************************)
OneText == <<"a", "a", "a">>

OneQueries == {<<"a">>, <<"b">>}

OneReplacements == {<<"b">>, <<"c">>}

InitOne == InitWith({"ReplaceWidget"}, {{"A"}}, {OneText}, {<<>>}, {<<>>})

OneActivate == ~Notified /\ ActivateTab("A")
OneMoveCursor == \E l \in {0}, i \in Columns : ~widget.visible /\ MoveCursor(l, i)
OneShow == \E q \in OneQueries : ~widget.visible /\ Show(q)
OneEditReplaceText == \E r \in OneReplacements : EditReplaceText(r)

NextOne ==
    \/ OneActivate
    \/ OneMoveCursor
    \/ OneShow
    \/ OneEditReplaceText
    \/ OnNext
    \/ OnReplace
    \/ OnReplaceAndMove
    \/ OnReplaceAll

SpecOne == InitOne /\ [][NextOne]_vars

(***************************************************************************)
(* Subscription: the Replace widget over two tabs and the welcome page;    *)
(* it is shown, hidden with its close button or with Escape, and the tabs  *)
(* are switched.                                                           *)
(***************************************************************************)
InitSub == InitWith({"ReplaceWidget"}, {{"A", "B"}}, {TabText}, {<<>>}, {<<>>})

SubActivate == \E t \in Tabs : ActivateTab(t)
SubShow == \E q \in TabQueries : ~widget.visible /\ Show(q)

NextSub ==
    \/ SubActivate
    \/ SubShow
    \/ Hide
    \/ Escape

SpecSub == InitSub /\ [][NextSub]_vars

(***************************************************************************)
(* Annotation viewer: the Replace widget over a text tab and a tab which   *)
(* shows a VCS annotation; it is shown once, the tabs are switched and     *)
(* Next / Previous are used.                                               *)
(***************************************************************************)
InitView == InitWith({"ReplaceWidget"}, {{"A", "V"}}, {TabText}, {<<>>}, {<<>>})

ViewActivate == \E t \in Tabs : ActivateTab(t)
ViewShow == \E q \in TabQueries : ~widget.visible /\ Show(q)

NextView ==
    \/ ViewActivate
    \/ ViewShow
    \/ OnNext
    \/ OnPrev

SpecView == InitView /\ [][NextView]_vars

(***************************************************************************)
(* Properties                                                              *)
(***************************************************************************)
\* (the operators take the state as a value, so that a step can be
\* described by World and World')
Searchable(s) == getType(s.m.current) \in SearchableTypes

\* offset of a (line, column) pair in the text of the current tab
OffsetOf(s, lineIndex) ==
    positionFromLineIndex(s.e[s.m.current].text, lineIndex[1], lineIndex[2])

Cursor(s) == s.e[s.m.current].cursor

CursorOffset(s) == OffsetOf(s, Cursor(s))

\* the occurrences of the query in the current text, in ascending order:
\* <<offset, length>>
Occurrences(s) ==
    ScanTargets(s.e[s.m.current].text, s.w.findText, opts(s), 0,
                Len(s.e[s.m.current].text))

HasRecord(s) == hasEditor(s, s.m.current)

lastMatch(s) == get(s, s.m.current).match

\* the record's lastMatch is the occurrence <<offset, length>>
MatchIs(s, occ) ==
    /\ HasRecord(s)
    /\ lastMatch(s) # NoMatch
    /\ OffsetOf(s, <<lastMatch(s)[1], lastMatch(s)[2]>>) = occ[1]
    /\ lastMatch(s)[3] = occ[2]

\* the cursor is on the start of the record's lastMatch
OnMatch(s) ==
    /\ HasRecord(s)
    /\ Cursor(s) = <<lastMatch(s)[1], lastMatch(s)[2]>>

\* the occurrence a Next is to select: the first one behind the current
\* match when the cursor is on it, the first one at or after the cursor
\* otherwise, the first one of the text when there is none
NextOccurrence(s) ==
    LET occ == Occurrences(s)
        ahead == {k \in 1..Len(occ) :
                     IF OnMatch(s) THEN occ[k][1] > CursorOffset(s)
                     ELSE occ[k][1] >= CursorOffset(s)}
    IN  IF ahead = {} THEN occ[1]
        ELSE occ[CHOOSE k \in ahead : \A j \in ahead : k <= j]

\* a step which is a Next of the Find widget on a searchable tab with a
\* query which occurs in the text
FindNextStep ==
    /\ output'.op = "onNext"
    /\ widget.cls = "FindWidget"
    /\ Searchable(World)
    /\ widget.findText # Empty
    /\ Len(Occurrences(World)) >= 1

\* C1: every Next of the Find widget selects the following occurrence in
\* ascending offset order, wrapping from the last one to the first one:
\* from a cursor which is on the current match the first occurrence
\* behind it, from any other cursor the first occurrence at or after it.
C1_WrapAround ==
    [][FindNextStep =>
          /\ CursorOffset(World') = NextOccurrence(World)[1]
          /\ MatchIs(World', NextOccurrence(World))]_vars

\* the cursor of offset c is behind the k-th occurrence and before the
\* next one, inside neither
Between(s, c, k) ==
    /\ k \in 1..(Len(Occurrences(s)) - 1)
    /\ Occurrences(s)[k][1] + Occurrences(s)[k][2] <= c
    /\ c < Occurrences(s)[k + 1][1]

\* the last two events were Previous and then Next on a searchable tab
AfterPrevNext ==
    /\ output.op = "onNext"
    /\ output.last.op = "onPrev"
    /\ Searchable(World)
    /\ widget.findText # Empty

\* C2 as claimed: Previous and then Next from a cursor between the k-th
\* occurrence and the next one leave the cursor and the current match on
\* the k-th occurrence.
C2_RoundTripClaimed ==
    AfterPrevNext =>
        \A k \in 1..Len(Occurrences(World)) :
            Between(World, OffsetOf(World, output.last.startCursor), k) =>
                /\ CursorOffset(World) = Occurrences(World)[k][1]
                /\ MatchIs(World, Occurrences(World)[k])

\* C2 as amended: Previous selects the k-th occurrence and the Next which
\* follows advances to occurrence k+1, the one behind the start cursor.
C2_PrevThenNext ==
    AfterPrevNext =>
        \A k \in 1..Len(Occurrences(World)) :
            Between(World, OffsetOf(World, output.last.startCursor), k) =>
                /\ CursorOffset(World) = Occurrences(World)[k + 1][1]
                /\ MatchIs(World, Occurrences(World)[k + 1])

C2_Witness ==
    /\ AfterPrevNext
    /\ \E k \in 1..Len(Occurrences(World)) :
          /\ Between(World, OffsetOf(World, output.last.startCursor), k)
          /\ CursorOffset(World) = Occurrences(World)[k + 1][1]

\* the anchor of the record of the current tab: the search start position
Anchor(s) == <<get(s, s.m.current).line, get(s, s.m.current).pos>>

FirstVisible(s) == s.e[s.m.current].firstVisible

\* indices of the occurrences which start at or after offset c
FromOffset(s, c) == {k \in 1..Len(Occurrences(s)) : Occurrences(s)[k][1] >= c}

\* the first occurrence at or after offset c
FirstFrom(s, c) ==
    Occurrences(s)[CHOOSE k \in FromOffset(s, c) :
                      \A j \in FromOffset(s, c) : k <= j]

\* a step which changes the query or an option within a session in which
\* no Next / Previous has found a match
IncrementalStep ==
    /\ output'.op \in {"editText", "checkBox"}
    /\ output'.session.on /\ ~output'.session.navigated
    /\ Searchable(World) /\ HasRecord(World)

\* C3: within an incremental session every change of the query or of an
\* option leaves the anchor at the cursor position of the session start;
\* the cursor ends on the first occurrence of the new query at or after
\* the anchor, and on the anchor when there is none - so a failed search
\* followed by a successful one ends on that first occurrence.
C3_AnchorFixed ==
    [][IncrementalStep =>
          /\ HasRecord(World')
          /\ Anchor(World) = output'.session.cursor
          /\ Anchor(World') = Anchor(World)
          /\ IF FromOffset(World', OffsetOf(World, Anchor(World))) # {}
             THEN CursorOffset(World') =
                      FirstFrom(World', OffsetOf(World, Anchor(World)))[1]
             ELSE Cursor(World') = Anchor(World)]_vars

\* a failed evaluation followed by a successful one, away from the start
\* of the text
C3_Witness ==
    /\ output.op \in {"editText", "checkBox"}
    /\ output.last.op \in {"editText", "checkBox"}
    /\ output.last.emitted = <<FALSE>> /\ output.emitted = <<TRUE>>
    /\ output.session.on /\ ~output.session.navigated
    /\ HasRecord(World)
    /\ Anchor(World) = output.session.cursor
    /\ Anchor(World) # <<0, 0>>
    /\ Cursor(World) # Anchor(World)

\* a step which empties the query while a match is highlighted
ClearStep ==
    /\ output'.op = "editText"
    /\ widget'.findText = Empty
    /\ output'.session.on
    /\ Searchable(World) /\ HasRecord(World)
    /\ lastMatch(World) # NoMatch

\* the cursor and the scroll are those of the session start
AtSessionStart ==
    /\ Cursor(World') = output'.session.cursor
    /\ FirstVisible(World') = output'.session.firstVisible

\* a Next / Previous step which finds a match
NavFoundStep ==
    /\ output'.op \in NavigationOps
    /\ \E i \in 1..Len(output'.emitted) : output'.emitted[i]
    /\ Searchable(World)

\* C8 as claimed: emptying the query while a match is highlighted, however
\* the match was reached, puts the cursor and the scroll back to where
\* they were when the search began.
C8_ResetClaimed == [][ClearStep => AtSessionStart]_vars

\* C8 as amended: the reset goes to where the search began when the match
\* was reached by changes of the query or the options only; a Next or
\* Previous which finds a match moves the anchor to that match, and from
\* then on the reset goes to that anchor.
C8_ResetToAnchor ==
    [][/\ ClearStep =>
            IF ~output'.session.navigated THEN AtSessionStart
            ELSE /\ Cursor(World') = Anchor(World)
                 /\ FirstVisible(World') = get(World, manager.current).firstLine
       /\ NavFoundStep =>
            /\ HasRecord(World')
            /\ Anchor(World') = Cursor(World')
            /\ OnMatch(World')
            /\ get(World', manager.current).firstLine = FirstVisible(World')]_vars

\* the query has been emptied after a Next / Previous found a match, and
\* the cursor is not where it was when the search began
C8_Witness ==
    /\ output.op = "editText"
    /\ widget.findText = Empty
    /\ output.session.on /\ output.session.navigated
    /\ Searchable(World) /\ HasRecord(World)
    /\ Cursor(World) = Anchor(World)
    /\ Cursor(World) # output.session.cursor

NoDuplicates(h) == \A i, j \in 1..Len(h) : h[i] = h[j] => i = j

\* the entries of a history other than t, in their order
Others(h, t) == SelectSeq(h, LAMBDA x : x # t)

\* C4: the find and replace histories of the widget, and the ones handed
\* to the project, never hold more than maxHistory (32) entries.
C4_HistoryBound ==
    /\ Len(widget.findHistory) <= maxHistory
    /\ Len(widget.replaceHistory) <= maxHistory
    /\ Len(project.findHistory) <= maxHistory
    /\ Len(project.replaceHistory) <= maxHistory

\* h2 is h after t has been added: t is in front, there is still no
\* duplicate, the other entries keep their order, and a t which was there
\* before has been moved, not added
Added(h, h2, t) ==
    NoDuplicates(h) =>
        /\ h2[1] = t
        /\ NoDuplicates(h2)
        /\ Others(h2, t) = Others(h, t)
        /\ t \in Range(h) => Len(h2) = Len(h)

\* C5: Next and Previous add the text of the find field to the find
\* history (the Find widget only a text which is not empty) and, in the
\* Replace widget, the text of the replace field to the replace history:
\* the added text is then the first entry, there is no duplicate, and the
\* other entries keep their order.
C5_HistoryRecency ==
    [][output'.op \in NavigationOps =>
          /\ (widget.cls = "ReplaceWidget" \/ widget.findText # Empty) =>
                Added(widget.findHistory, widget'.findHistory, widget.findText)
          /\ widget.cls = "ReplaceWidget" =>
                Added(widget.replaceHistory, widget'.replaceHistory,
                      widget.replaceText)]_vars

\* an entry which was in the history has been moved in front of a newer
\* one
C5_Witness ==
    /\ output.op \in NavigationOps
    /\ widget.findHistory[1] = Word(1)
    /\ widget.findHistory[2] = Word(maxHistory + 1)
    /\ NoDuplicates(widget.findHistory)

\* the tabs other than the current one which have a record: the documents
\* a search has been made in before
OtherRecords(s) == DOMAIN s.w.editorSearchAttributes \ {s.m.current}

QueryChanges == {"editText", "checkBox"}

Restarts == {"show", "startHiddenSearch"} \cup NavigationOps

\* a step of one of the operations ops which searches in the current tab
SearchStep(ops) == output'.op \in ops /\ Searchable(World)

\* the records of the other documents are what they were
OtherRecordsKept ==
    \A t \in OtherRecords(World) :
        /\ t \in DOMAIN widget'.editorSearchAttributes
        /\ widget'.editorSearchAttributes[t] = widget.editorSearchAttributes[t]

\* C6 as claimed: a search in the current document, by a change of the
\* query or of an option, by show or by Next / Previous, leaves the record
\* of every other document in the registry, unchanged.
C6_RecordKeptClaimed ==
    [][SearchStep(QueryChanges \cup Restarts) => OtherRecordsKept]_vars

\* C6 as amended: show, startHiddenSearch and Next / Previous leave the
\* records of the other documents unchanged; a change of the query or of
\* an option removes them.
C6_RecordKept ==
    [][/\ SearchStep(Restarts) => OtherRecordsKept
       /\ SearchStep(QueryChanges) =>
             \A t \in OtherRecords(World) :
                 t \notin DOMAIN widget'.editorSearchAttributes]_vars

\* Next in document B while document A, which a match has been found in,
\* has its record
C6_Witness ==
    /\ output.op = "onNext"
    /\ manager.current = "B"
    /\ "A" \in manager.open
    /\ hasEditor(World, "A") /\ get(World, "A").match # NoMatch
    /\ hasEditor(World, "B") /\ get(World, "B").match # NoMatch

Indicators(s, t) == s.e[t].searchIndicator \cup s.e[t].matchIndicator

\* C7 as claimed: a search in the current document by any entry point
\* clears the search indicators of every other document which has been
\* searched in.
C7_HighlightClearedClaimed ==
    [][SearchStep(QueryChanges \cup Restarts) =>
          \A t \in OtherRecords(World) : Indicators(World', t) = {}]_vars

\* C7 as amended: a change of the query or of an option clears the
\* indicators of the other documents; show, startHiddenSearch and Next /
\* Previous leave them as they are.
C7_HighlightCleared ==
    [][/\ SearchStep(QueryChanges) =>
             \A t \in OtherRecords(World) : Indicators(World', t) = {}
       /\ SearchStep(Restarts) =>
             \A t \in OtherRecords(World) :
                 /\ editors'[t].searchIndicator = editors[t].searchIndicator
                 /\ editors'[t].matchIndicator = editors[t].matchIndicator]_vars

\* the query has been changed in document B; document A, whose cursor is
\* on the match a search has found, has no indicators left
C7_Witness ==
    /\ output.op = "editText"
    /\ manager.current = "B"
    /\ "A" \in manager.open
    /\ editors["A"].cursor = <<0, 1>>
    /\ Indicators(World, "A") = {}
    /\ Indicators(World, "B") # {}

\* C9: the registry has no record of a document which has been closed
\* (and, being keyed by the document, at most one per open document).
C9_RegistryLifecycle ==
    DOMAIN widget.editorSearchAttributes \subseteq manager.open

\* document A, in which Next has just found a match, has been closed
C9_Witness ==
    /\ output.op = "tabClosed"
    /\ output.last.op = "onNext"
    /\ \E i \in 1..Len(output.last.emitted) : output.last.emitted[i]
    /\ "A" \notin manager.open
    /\ manager.current = "B"
    /\ ~hasEditor(World, "B")

\* C10: no operation ends in a lookup fault of the registry.
C10_NoLookupFault == output.fault # "KeyError"

\* txt with the first k of the occurrences occ replaced by r (the last
\* of them first, so that the offsets of the ones before it stay)
RECURSIVE Substituted(_, _, _, _)
Substituted(txt, occ, k, r) ==
    IF k = 0 THEN txt
    ELSE Substituted(SubSeq(txt, 1, occ[k][1]) \o r \o
                     SubSeq(txt, occ[k][1] + occ[k][2] + 1, Len(txt)),
                     occ, k - 1, r)

\* number of the noted undo entries of one kind
Noted(log, action) ==
    Cardinality({i \in 1..Len(log) : log[i].action = action})

\* a step which is a replace all in a text the query occurs in
ReplaceAllStep ==
    /\ output'.op = "onReplaceAll"
    /\ output'.fault = NoFault
    /\ Len(Occurrences(World)) >= 1

\* the wording of the report for n replacements
Wording(n) ==
    IF n = 1 THEN "1 occurrence replaced."
    ELSE IF n = 2 THEN "2 occurrences replaced."
    ELSE IF n = 3 THEN "3 occurrences replaced."
    ELSE "many occurrences replaced."

\* C11: replace all substitutes every occurrence found from the start of
\* the document, wherever the cursor is, and reports the number of
\* substitutions it made: "1 occurrence replaced." for one and
\* "N occurrences replaced." for N > 1.
C11_ReplaceAllCount ==
    [][ReplaceAllStep =>
          /\ editors'[manager.current].text =
                 Substituted(editors[manager.current].text,
                             Occurrences(World), Len(Occurrences(World)),
                             widget.replaceText)
          /\ output'.count = Len(Occurrences(World))
          /\ Noted(output'.undo, "replaceTarget") = output'.count
          /\ output'.messages = <<Wording(output'.count)>>]_vars

\* "aXaXa" has become "bXbXb" and three replacements have been reported
C11_Witness ==
    /\ output.op = "onReplaceAll"
    /\ editors["A"].text = <<"b", "X", "b", "X", "b">>
    /\ output.count = 3
    /\ output.messages = <<"3 occurrences replaced.">>

\* C12: all the substitutions of a replace all are made between one
\* beginUndoAction and its endUndoAction, no undo action is left open
\* when the operation returns, and one undo gives back the text as it
\* was before the operation.
C12_ReplaceAllAtomic ==
    [][output'.op = "onReplaceAll" =>
          /\ Noted(output'.undo, "beginUndoAction") =
                 Noted(output'.undo, "endUndoAction")
          /\ ReplaceAllStep =>
                /\ Noted(output'.undo, "beginUndoAction") = 1
                /\ output'.undo[1].action = "beginUndoAction"
                /\ output'.undo[Len(output'.undo)].action = "endUndoAction"
                /\ \A i \in 2..(Len(output'.undo) - 1) :
                       output'.undo[i].action = "replaceTarget"
                /\ undo(editors'[manager.current].text, output'.undo) =
                       editors[manager.current].text]_vars

\* several substitutions have been made within one undo action
C12_Witness ==
    /\ output.op = "onReplaceAll"
    /\ Len(output.undo) >= 4
    /\ output.undo[1].action = "beginUndoAction"
    /\ output.undo[Len(output.undo)].action = "endUndoAction"
    /\ undo(editors["A"].text, output.undo) = AllText
    /\ editors["A"].text # AllText

\* a Next or Previous step while the current tab is no searchable kind
NotApplicableStep ==
    /\ output'.op \in {"onNext", "onPrev"}
    /\ ~Searchable(World)

\* C13: Next and Previous on a tab which is neither a text editor nor an
\* annotation viewer leave the registry, the cursors and the highlights
\* as they are and report nothing: no found / not-found signal and no
\* status message.
C13_NotApplicable ==
    [][NotApplicableStep =>
          /\ widget'.editorSearchAttributes = widget.editorSearchAttributes
          /\ \A t \in Tabs :
                /\ editors'[t].cursor = editors[t].cursor
                /\ editors'[t].firstVisible = editors[t].firstVisible
                /\ editors'[t].searchIndicator = editors[t].searchIndicator
                /\ editors'[t].matchIndicator = editors[t].matchIndicator
          /\ output'.emitted = <<>>
          /\ output'.messages = <<>>]_vars

\* Next or Previous with a query in the find field on the Welcome tab,
\* while the text tab has the record and the highlight of a match
C13_Witness ==
    /\ output.op \in {"onNext", "onPrev"}
    /\ manager.current = Welcome
    /\ widget.findText # Empty
    /\ hasEditor(World, "A") /\ get(World, "A").match # NoMatch
    /\ editors["A"].matchIndicator # {}

\* the last event was a Next or Previous (or Return) which reported
\* "found" at its end
ReportedFound ==
    /\ output.op \in NavigationOps
    /\ Len(output.emitted) >= 1
    /\ output.emitted[Len(output.emitted)]
    /\ Searchable(World)

\* C14: after a Next or Previous which reports "found" the record of the
\* current document has the selected occurrence as its lastMatch - an
\* occurrence of the query, the one which carries the match indicator -,
\* the cursor is at the start of that occurrence and the anchor of the
\* record is that cursor position.
C14_FoundPostcondition ==
    ReportedFound =>
        /\ HasRecord(World)
        /\ lastMatch(World) # NoMatch
        /\ MatchAt(editors[manager.current].text, widget.findText,
                   opts(World),
                   OffsetOf(World, <<lastMatch(World)[1], lastMatch(World)[2]>>))
        /\ lastMatch(World)[3] = Len(widget.findText)
        /\ editors[manager.current].matchIndicator =
               {OffsetOf(World, <<lastMatch(World)[1], lastMatch(World)[2]>>)}
        /\ Cursor(World) = <<lastMatch(World)[1], lastMatch(World)[2]>>
        /\ Anchor(World) = Cursor(World)

\* Previous has found the occurrence of the second line from a cursor
\* behind it: the match, the cursor and the anchor have moved there
C14_Witness ==
    /\ ReportedFound
    /\ output.op = "onPrev"
    /\ output.startCursor = <<1, 2>>
    /\ Cursor(World) = <<1, 0>>
    /\ Anchor(World) = <<1, 0>>
    /\ lastMatch(World) = <<1, 0, 2>>

\* there is a match of the query which lies within the offsets a..b
RangeHas(s, a, b) ==
    \E p \in a..b :
        /\ p + Len(s.w.findText) <= b
        /\ MatchAt(s.e[s.m.current].text, s.w.findText, opts(s), p)

\* the offset a directional search starts at: the cursor, or the end of
\* the current match when the cursor is on it and the search goes forward
ScanStart(s, backward) ==
    IF OnMatch(s) /\ ~backward
    THEN CursorOffset(s) + lastMatch(s)[3]
    ELSE CursorOffset(s)

\* a Next or Previous step on a searchable tab with a query, of which
\* neither the first scan range nor the one behind the wrap has a match
NothingInRangeStep ==
    /\ output'.op \in NavigationOps
    /\ Searchable(World)
    /\ widget.findText # Empty
    /\ ~RangeHas(World, 0, ScanStart(World, widget'._findBackward))
    /\ ~RangeHas(World, ScanStart(World, widget'._findBackward),
                 Len(editors[manager.current].text))

\* C15: a Next or Previous which finds a match in neither range sets the
\* lastMatch of the record to (-1,-1,-1), leaves the cursor, and reports
\* "not found" as a value: incSearchDone(False) and the message "No
\* matches found", no fault.
C15_NotFoundPostcondition ==
    [][NothingInRangeStep =>
          /\ HasRecord(World')
          /\ lastMatch(World') = NoMatch
          /\ Cursor(World') = Cursor(World)
          /\ Len(output'.emitted) >= 1
          /\ \A i \in 1..Len(output'.emitted) : ~output'.emitted[i]
          /\ output'.messages[Len(output'.messages)] = "No matches found"
          /\ output'.fault = NoFault]_vars

\* Previous has found nothing for a query which does not occur, from a
\* cursor within the text
C15_Witness ==
    /\ output.op = "onPrev"
    /\ Searchable(World)
    /\ widget.findText = <<"a", "a">>
    /\ output.emitted = <<FALSE>>
    /\ Cursor(World) = output.startCursor
    /\ Cursor(World) # <<0, 0>>
    /\ HasRecord(World) /\ lastMatch(World) = NoMatch

\* the occurrence a Previous is to select: the last one which lies
\* entirely before the cursor, the last one of the text when there is none
PrevOccurrence(s) ==
    LET occ == Occurrences(s)
        before == {k \in 1..Len(occ) : occ[k][1] + occ[k][2] <= CursorOffset(s)}
    IN  IF before = {} THEN occ[Len(occ)]
        ELSE occ[CHOOSE k \in before : \A j \in before : k >= j]

\* a step which is a Previous on a searchable tab with a query which
\* occurs in the text
FindPrevStep ==
    /\ output'.op = "onPrev"
    /\ Searchable(World)
    /\ widget.findText # Empty
    /\ Len(Occurrences(World)) >= 1

\* C16: every Previous selects the last occurrence which lies entirely
\* before the cursor, so repeated ones go through the occurrences in
\* descending offset order, and from a cursor with no occurrence before
\* it the last occurrence of the document.
C16_BackwardOrder ==
    [][FindPrevStep =>
          /\ CursorOffset(World') = PrevOccurrence(World)[1]
          /\ MatchIs(World', PrevOccurrence(World))]_vars

\* a step which changes the query or an option on a searchable tab: a
\* continuing evaluation
ContinuingStep ==
    /\ output'.op \in QueryChanges
    /\ Searchable(World)

\* no match of the query starts at or after offset c
NoneFrom(s, c) ==
    ~\E p \in c..Len(s.e[s.m.current].text) :
        MatchAt(s.e[s.m.current].text, s.w.findText, opts(s), p)

\* C17: a continuing evaluation with a query which is not empty never
\* selects a match which starts before the anchor; when no match starts
\* at or after the anchor - also when there are matches before it - the
\* cursor goes back to the anchor, the scroll to the recorded first
\* visible line, lastMatch becomes (-1,-1,-1) and "not found" is reported.
C17_NoWrap ==
    [][ContinuingStep /\ widget'.findText # Empty =>
          /\ HasRecord(World')
          /\ lastMatch(World') # NoMatch =>
                OffsetOf(World', <<lastMatch(World')[1], lastMatch(World')[2]>>)
                    >= OffsetOf(World', Anchor(World'))
          /\ NoneFrom(World', OffsetOf(World', Anchor(World'))) =>
                /\ Cursor(World') = Anchor(World')
                /\ FirstVisible(World') = get(World', manager.current).firstLine
                /\ lastMatch(World') = NoMatch
                /\ output'.emitted = <<FALSE>>]_vars

\* the whole word option has been set after a match was found: the query
\* now occurs before the anchor only, the cursor is back on the anchor
\* and nothing is selected
C17_Witness ==
    /\ output.op = "checkBox"
    /\ output.last.emitted = <<TRUE>>
    /\ output.emitted = <<FALSE>>
    /\ widget.findText # Empty
    /\ Len(Occurrences(World)) >= 1
    /\ HasRecord(World) /\ lastMatch(World) = NoMatch
    /\ Cursor(World) = Anchor(World)
    /\ Cursor(World) # output.startCursor

\* C18: a continuing evaluation, whatever it finds, leaves the anchor
\* line, the anchor column and the recorded first visible line of the
\* record of the current document as they are, and the text as well: of
\* the record only lastMatch may change.
C18_IncrementalFrame ==
    [][ContinuingStep /\ HasRecord(World) =>
          /\ HasRecord(World')
          /\ get(World', manager.current).line = get(World, manager.current).line
          /\ get(World', manager.current).pos = get(World, manager.current).pos
          /\ get(World', manager.current).firstLine =
                 get(World, manager.current).firstLine
          /\ editors'[manager.current].text = editors[manager.current].text]_vars

\* an option has been changed and a match found away from the anchor:
\* the record still has the anchor and the first visible line of the
\* session start
C18_Witness ==
    /\ output.op = "checkBox"
    /\ output.emitted = <<TRUE>>
    /\ output.session.on /\ ~output.session.navigated
    /\ HasRecord(World)
    /\ Anchor(World) = output.session.cursor
    /\ get(World, manager.current).firstLine = output.session.firstVisible
    /\ Cursor(World) # Anchor(World)
    /\ lastMatch(World) # NoMatch

\* a step which empties the query on a tab which has a record
EmptiedStep ==
    /\ output'.op = "editText"
    /\ widget'.findText = Empty
    /\ Searchable(World) /\ HasRecord(World)

\* C20 as claimed: when the query becomes empty the record of the current
\* document has its anchor and its lastMatch at the -1 sentinel.
C20_ClearedClaimed ==
    [][EmptiedStep =>
          /\ HasRecord(World')
          /\ Anchor(World') = <<-1, -1>>
          /\ lastMatch(World') = NoMatch]_vars

\* C20 as amended: when the query becomes empty the lastMatch of the
\* record is reset to (-1,-1,-1); the anchor is left as it was.
C20_EmptyQuery ==
    [][EmptiedStep =>
          /\ HasRecord(World')
          /\ lastMatch(World') = NoMatch
          /\ Anchor(World') = Anchor(World)]_vars

\* the query has been emptied after a match was found away from the
\* anchor: no match is left, the anchor is the position it was
C20_Witness ==
    /\ output.op = "editText"
    /\ widget.findText = Empty
    /\ output.last.emitted = <<TRUE>>
    /\ HasRecord(World)
    /\ lastMatch(World) = NoMatch
    /\ Anchor(World) # <<-1, -1>>
    /\ Anchor(World) # output.startCursor
    /\ Cursor(World) = Anchor(World)

\* a show or startHiddenSearch step on a searchable tab
SessionBeginStep ==
    /\ output'.op \in SessionStarters
    /\ Searchable(World)

\* offset of the first match of the query which starts at or after c
FirstMatchFrom(s, c) ==
    CHOOSE p \in c..Len(s.e[s.m.current].text) :
        /\ MatchAt(s.e[s.m.current].text, s.w.findText, opts(s), p)
        /\ \A q \in c..(p - 1) :
               ~MatchAt(s.e[s.m.current].text, s.w.findText, opts(s), q)

\* C19: after show or startHiddenSearch on a searchable tab the direction
\* is forward, the regexp option is off, the case and whole word options
\* are what they were, and the record of the current document - a new
\* one also when there was one before - has the cursor position of the
\* moment of the call as its anchor and the first match from there, or
\* (-1,-1,-1) when there is none, as its lastMatch.
C19_SessionBegin ==
    [][SessionBeginStep =>
          /\ ~widget'._findBackward
          /\ ~widget'.isRegexp
          /\ widget'.isCase = widget.isCase
          /\ widget'.isWord = widget.isWord
          /\ HasRecord(World')
          /\ Anchor(World') = Cursor(World)
          /\ IF NoneFrom(World', CursorOffset(World))
             THEN lastMatch(World') = NoMatch
             ELSE MatchIs(World', <<FirstMatchFrom(World', CursorOffset(World)),
                                    Len(widget'.findText)>>)]_vars

\* startHiddenSearch after a Previous which found a match: the document
\* had a record and the direction was backward; the anchor is now the
\* cursor position of the call, away from the start of the text
C19_Witness ==
    /\ output.op = "startHiddenSearch"
    /\ output.last.op = "onPrev"
    /\ output.last.emitted = <<TRUE>>
    /\ Searchable(World)
    /\ ~widget._findBackward
    /\ output.startCursor = <<0, 1>>
    /\ HasRecord(World)
    /\ Anchor(World) = <<0, 1>>
    /\ lastMatch(World) = <<0, 1, 1>>

\* the documents of the registry after _resetHighlightOtherEditors(d)
KeptRecords(s, d) ==
    DOMAIN _resetHighlightOtherEditors(s, d).w.editorSearchAttributes

\* C21: after _resetHighlightOtherEditors(d), for any d, the registry has
\* no record of a document other than d; a record d had before is there
\* as it was (anchor, first visible line, lastMatch), and when d had none
\* the registry is empty.
C21_IsolateTo ==
    \A d \in Tabs \cup {NoUUID} :
        IF hasEditor(World, d)
        THEN /\ KeptRecords(World, d) = {d}
             /\ get(_resetHighlightOtherEditors(World, d), d) = get(World, d)
        ELSE KeptRecords(World, d) = {}

\* the query has been changed in document B while documents A and B had
\* records with a match: the registry has the record of B only
C21_Witness ==
    /\ output.op = "editText"
    /\ output.last.op = "onNext"
    /\ output.last.emitted = <<TRUE>>
    /\ manager.current = "B"
    /\ "A" \in manager.open
    /\ editors["A"].cursor = <<0, 1>>
    /\ DOMAIN widget.editorSearchAttributes = {"B"}
    /\ KeptRecords(World, "A") = {}

\* C22: Escape sets the anchor line and column of every record of the
\* registry to -1; the documents which have a record, each lastMatch and
\* each first visible line stay as they are.
C22_EscapeClearsAnchors ==
    [][output'.op = "escape" =>
          /\ DOMAIN widget'.editorSearchAttributes =
                 DOMAIN widget.editorSearchAttributes
          /\ \A k \in DOMAIN widget.editorSearchAttributes :
                /\ widget'.editorSearchAttributes[k].line = -1
                /\ widget'.editorSearchAttributes[k].pos = -1
                /\ widget'.editorSearchAttributes[k].match =
                       widget.editorSearchAttributes[k].match
                /\ widget'.editorSearchAttributes[k].firstLine =
                       widget.editorSearchAttributes[k].firstLine]_vars

\* Escape with records of both documents, one of them with a match and a
\* scrolled view: both anchors are -1, the rest is there
C22_Witness ==
    /\ output.op = "escape"
    /\ DOMAIN widget.editorSearchAttributes = {"A", "B"}
    /\ \A k \in {"A", "B"} : /\ get(World, k).line = -1
                             /\ get(World, k).pos = -1
    /\ get(World, "A").match = <<2, 0, 1>>
    /\ get(World, "A").firstLine = 1
    /\ get(World, "B").match = <<0, 0, 1>>

\* an Escape step within an incremental session: the panel was shown on
\* the current document and only the query has been changed since
EscapeInSessionStep ==
    /\ output'.op = "escape"
    /\ output.session.on /\ ~output.session.navigated
    /\ Searchable(World) /\ HasRecord(World)

\* C23 as claimed: Escape during an incremental session puts the cursor
\* and the scroll of the current document back to the anchor and the
\* first visible line of the session start.
C23_EscapeRestoresClaimed ==
    [][EscapeInSessionStep =>
          /\ Cursor(World') = output.session.cursor
          /\ FirstVisible(World') = output.session.firstVisible]_vars

\* C23 as amended: Escape during an incremental session leaves the cursor
\* and the scroll of the current document where the search has put them;
\* the panel is hidden.
C23_EscapeKeepsCursor ==
    [][EscapeInSessionStep =>
          /\ Cursor(World') = Cursor(World)
          /\ FirstVisible(World') = FirstVisible(World)
          /\ ~widget'.visible]_vars

\* Escape after the incremental search has moved the cursor to a match
\* and scrolled the view: the cursor and the view are still there
C23_Witness ==
    /\ output.op = "escape"
    /\ output.last.op \in {"show", "editText"}
    /\ output.last.emitted = <<TRUE>>
    /\ output.last.startCursor = <<0, 1>>
    /\ Searchable(World)
    /\ Cursor(World) = <<2, 0>>
    /\ FirstVisible(World) = 1
    /\ ~widget.visible

ReplaceOneStep ==
    /\ output'.op = "onReplace"
    /\ Len(output'.undo) = 1
    /\ output'.undo[1].action = "replaceTarget"

\* the position just behind the text the substitution has put in
PastInserted(s) ==
    lineIndexFromPosition(s.e[s.m.current].text,
                          s.o.undo[1].at + Len(s.o.undo[1].inserted))

\* C25: a single replace which has substituted a match leaves the cursor
\* just behind the inserted text, on the line of the match, and the
\* document's lastMatch at (-1,-1,-1).
C25_ReplaceOnePostcondition ==
    [][ReplaceOneStep =>
          /\ Cursor(World') = PastInserted(World')
          /\ lastMatch(World') = NoMatch]_vars

\* the same when a match was remembered at the start of the replace
C25_FromRememberedMatch ==
    [][ReplaceOneStep /\ lastMatch(World) # NoMatch =>
          /\ Cursor(World') = PastInserted(World')
          /\ output'.undo[1].at =
                 OffsetOf(World, <<lastMatch(World)[1], lastMatch(World)[2]>>)
          /\ lastMatch(World') = NoMatch]_vars

\* C26: after a single replace which has substituted a match, an edit of
\* the replacement text leaves the Replace and the Replace-and-move
\* buttons disabled.
C26_DisabledUntilNewMatch ==
    [][/\ output.op = "onReplace"
       /\ Len(output.undo) = 1
       /\ output'.op = "editReplaceText"
       => /\ ~widget'.replaceButton
          /\ ~widget'.replaceAndMoveButton]_vars

\* C26, its consequence: a single replace never runs while the document's
\* lastMatch is (-1,-1,-1).
C26_NeverOnNoMatch ==
    [][output'.op \in {"onReplace", "onReplaceAndMove"} =>
          HasRecord(World) /\ lastMatch(World) # NoMatch]_vars

\* offset of the end of the text the substitution has put in
InsertedEnd(s) == s.o.undo[1].at + Len(s.o.undo[1].inserted)

\* a step in which Replace-and-move has substituted the remembered match
ReplaceAndMoveStep ==
    /\ output'.op = "onReplaceAndMove"
    /\ HasRecord(World) /\ lastMatch(World) # NoMatch
    /\ Len(output'.undo) = 1
    /\ output'.undo[1].action = "replaceTarget"

\* C27: after Replace-and-move has substituted a match, when the query
\* still occurs in the text, the current match is the first occurrence at
\* or after the end of the inserted text, the first one of the text when
\* there is none; an occurrence which begins where the inserted text ends
\* is not passed over.
C27_NoSkip ==
    [][ReplaceAndMoveStep /\ Len(Occurrences(World')) > 0 =>
          MatchIs(World',
                  IF FromOffset(World', InsertedEnd(World')) = {}
                  THEN Occurrences(World')[1]
                  ELSE FirstFrom(World', InsertedEnd(World')))]_vars

\* Replace-and-move on "aaa" at offset 0 with "b": the occurrence at
\* offset 1, where the inserted text ends, is passed over
C27_Skipped ==
    /\ output.op = "onReplaceAndMove"
    /\ output.last.op = "editReplaceText"
    /\ editors["A"].text = <<"b", "a", "a">>
    /\ HasRecord(World)
    /\ lastMatch(World) = <<0, 2, 1>>
    /\ Cursor(World) = <<0, 2>>

\* a step in which a single replace (Replace or Replace-and-move) has
\* changed the text
SubstitutedOnceStep ==
    /\ output'.op \in {"onReplace", "onReplaceAndMove"}
    /\ editors'[manager.current].text # editors[manager.current].text

\* C28 as claimed: the substitution of a single replace is made between a
\* beginUndoAction and its endUndoAction.
C28_UndoScopedClaimed ==
    [][SubstitutedOnceStep =>
          /\ Len(output'.undo) = 3
          /\ output'.undo[1].action = "beginUndoAction"
          /\ output'.undo[2].action = "replaceTarget"
          /\ output'.undo[3].action = "endUndoAction"]_vars

\* C28 as amended: the substitution of a single replace is one
\* replaceTarget call, made outside any undo action (none is begun or
\* ended); it is one undo step, and one undo takes it back.
C28_OneUndoStep ==
    [][output'.op \in {"onReplace", "onReplaceAndMove"} =>
          /\ \A k \in 1..Len(output'.undo) :
                 output'.undo[k].action = "replaceTarget"
          /\ Len(output'.undo) <= 1
          /\ SubstitutedOnceStep => Len(output'.undo) = 1
          /\ undo(editors'[manager.current].text, output'.undo) =
                 editors[manager.current].text]_vars

\* Replace has put "b" for the first "a" of "aaa", as one noted step
C28_Witness ==
    /\ output.op = "onReplace"
    /\ editors["A"].text = <<"b", "a", "a">>
    /\ Len(output.undo) = 1
    /\ output.undo[1] = undoEntry("replaceTarget", 0, <<"a">>, <<"b">>)

\* a step in which Replace has found nothing to substitute
ReplaceNothingStep ==
    /\ output'.op = "onReplace"
    /\ output'.fault = NoFault
    /\ output'.undo = <<>>

\* C29: a single replace which finds no match leaves the text as it is
\* and reports that nothing was replaced.
C29_NothingReplacedReported ==
    [][ReplaceNothingStep =>
          /\ editors'[manager.current].text = editors[manager.current].text
          /\ output'.messages # <<>>]_vars

\* the part of C29 about the text
C29_TextUnchanged ==
    [][ReplaceNothingStep =>
          editors'[manager.current].text = editors[manager.current].text]_vars

\* Replace with the query "b", which "aaa" does not have: nothing is
\* substituted and nothing is reported
C29_Silent ==
    /\ output.op = "onReplace"
    /\ output.fault = NoFault
    /\ widget.findText = <<"b">>
    /\ editors["A"].text = OneText
    /\ output.undo = <<>>
    /\ output.messages = <<>>

\* a step in which Replace-all runs on a text without the query
ReplaceAllNoMatchStep ==
    /\ output'.op = "onReplaceAll"
    /\ output'.fault = NoFault
    /\ Len(Occurrences(World)) = 0

\* what Replace-all without a match does for certain: the message, no
\* substitution, no undo action, the text and the registry as before
NoMatchOutcome ==
    /\ output'.messages = <<"No matches found. Nothing is replaced.">>
    /\ output'.undo = <<>>
    /\ output'.count = 0
    /\ editors'[manager.current].text = editors[manager.current].text
    /\ widget'.editorSearchAttributes = widget.editorSearchAttributes

\* C30: Replace-all on a text without the query reports "No matches found.
\* Nothing is replaced.", substitutes nothing, opens no undo action and
\* leaves the text, the registry and the enabled state of the three
\* replace buttons as they are.
C30_ReplaceAllNoMatch ==
    [][ReplaceAllNoMatchStep =>
          /\ NoMatchOutcome
          /\ widget'.replaceButton = widget.replaceButton
          /\ widget'.replaceAndMoveButton = widget.replaceAndMoveButton
          /\ widget'.replaceAllButton = widget.replaceAllButton]_vars

\* C30 where the two buttons agree with the flag behind them at the start
C30_WhenFlagAgrees ==
    [][/\ ReplaceAllNoMatchStep
       /\ widget.replaceButton = widget.__replaceCouldBeEnabled
       /\ widget.replaceAndMoveButton = widget.__replaceCouldBeEnabled
       => /\ NoMatchOutcome
          /\ widget'.replaceButton = widget.replaceButton
          /\ widget'.replaceAndMoveButton = widget.replaceAndMoveButton
          /\ widget'.replaceAllButton = widget.replaceAllButton]_vars

\* C30 without the Replace and Replace-and-move buttons
C30_ButButtons ==
    [][ReplaceAllNoMatchStep =>
          /\ NoMatchOutcome
          /\ widget'.replaceAllButton = widget.replaceAllButton]_vars

\* a step which is a Next or a Previous of the Find widget with a query
FindStep ==
    /\ output'.op \in {"onNext", "onPrev"}
    /\ widget.cls = "FindWidget"
    /\ widget.findText # Empty

\* the find history is handed to the project exactly when the step has
\* changed it
PersistedWhenChanged ==
    /\ output'.persisted <= 1
    /\ output'.persisted = 1 <=> widget'.findHistory # widget.findHistory
    /\ output'.persisted = 1 => project'.findHistory = widget'.findHistory
    /\ output'.persisted = 0 => project' = project

\* C31: after a Next or a Previous of the Find widget with a query, found
\* or not, the query is the first entry of the find history, and the
\* history is handed to the project exactly when the call has changed it.
C31_FindHistory ==
    [][FindStep =>
          /\ widget'.findHistory # <<>>
          /\ widget'.findHistory[1] = widget.findText
          /\ PersistedWhenChanged]_vars

\* the same while the history is within its capacity
C31_WithinCapacity ==
    [][FindStep /\ Len(widget'.findHistory) <= maxHistory =>
          /\ widget'.findHistory[1] = widget.findText
          /\ PersistedWhenChanged]_vars

\* the first entry, whatever the length of the history
C31_QueryInFront ==
    [][FindStep =>
          /\ widget'.findHistory # <<>>
          /\ widget'.findHistory[1] = widget.findText]_vars

\* a step which evaluates the query incrementally, or a Next / Previous /
\* Return with a query, on a tab with a text
ReportingStep ==
    /\ Searchable(World')
    /\ \/ output'.op \in SessionStarters \cup {"editText", "checkBox"}
       \/ /\ output'.op \in NavigationOps
          /\ widget.findText # Empty

\* the document of the current tab has a match remembered
HasMatch(s) == HasRecord(s) /\ lastMatch(s) # NoMatch

\* C32 as claimed: every incremental evaluation on a tab with a text and
\* every Next / Previous with a query, in either widget, emits one
\* found / not-found signal, which is TRUE exactly when the document's
\* lastMatch is not (-1,-1,-1) at the end.
C32_SingleReportClaimed ==
    [][ReportingStep =>
          /\ Len(output'.emitted) = 1
          /\ output'.emitted[1] <=> HasMatch(World')]_vars

\* the step is a Next of the Replace widget whose first search leaves the
\* cursor where it was, so that it searches a second time
SearchedTwice ==
    /\ widget.cls = "ReplaceWidget"
    /\ \/ output'.op = "onNext"
       \/ output'.op = "returnPressed" /\ ~widget._findBackward
    /\ Cursor(FindReplaceBase_onNext(Begin(World, "onNext"))) = Cursor(World)

\* C32 as amended: such an action emits one signal, and two when it is a
\* Next of the Replace widget whose first search has left the cursor
\* where it was; the signals of one action are TRUE exactly when the
\* document's lastMatch is not (-1,-1,-1) at the end.
C32_Report ==
    [][ReportingStep =>
          /\ Len(output'.emitted) = IF SearchedTwice THEN 2 ELSE 1
          /\ \A k \in 1..Len(output'.emitted) :
                 output'.emitted[k] <=> HasMatch(World')]_vars

\* a Next of the Replace widget on the only occurrence: found twice
C32_Witness ==
    /\ output.op = "onNext"
    /\ widget.cls = "ReplaceWidget"
    /\ widget.findText = <<"b">>
    /\ output.emitted = <<TRUE, TRUE>>
    /\ HasMatch(World)
    /\ Cursor(World) = <<2, 1>>

\* a Next, Previous or Return with a query on a tab with a text has
\* reported "not found"
NotFoundStep ==
    /\ output'.op \in NavigationOps
    /\ widget.findText # Empty
    /\ Searchable(World')
    /\ output'.emitted # <<>>
    /\ ~output'.emitted[Len(output'.emitted)]

\* the cursor is inside an occurrence, behind its first character
InsideOccurrence(s) ==
    \E k \in 1..Len(Occurrences(s)) :
        /\ Occurrences(s)[k][1] < CursorOffset(s)
        /\ CursorOffset(s) < Occurrences(s)[k][1] + Occurrences(s)[k][2]

\* C33: Next or Previous with a query reports "not found" only when the
\* text has no occurrence of the query at all, wherever the cursor is.
C33_NotFoundExact ==
    [][NotFoundStep => Len(Occurrences(World)) = 0]_vars

\* the same from a cursor which is not inside an occurrence
C33_FromOutside ==
    [][NotFoundStep /\ ~InsideOccurrence(World) =>
          Len(Occurrences(World)) = 0]_vars

\* the editors whose cursor signal is connected to the widget
Subscribed == {t \in Tabs : editors[t].connections > 0}

\* C34: the Replace widget is subscribed to the cursor signal of at most
\* one editor, which is the one of the current tab, at most once, and its
\* connected flag tells whether there is such a subscription.
C34_Subscription ==
    widget.cls = "ReplaceWidget" =>
        /\ Cardinality(Subscribed) <= 1
        /\ \A t \in Subscribed :
               /\ t = widget._editor
               /\ editors[t].connections = 1
        /\ widget.__connected <=> Subscribed # {}

\* the parts of C34 one by one
C34_OneEditor == Cardinality(Subscribed) <= 1

C34_ActiveEditor == \A t \in Subscribed : t = widget._editor

C34_Once == \A t \in Tabs : editors[t].connections <= 1

C34_Flag == widget.__connected <=> Subscribed # {}

\* the current tab, which the widget has been told of, shows a VCS
\* annotation
OnViewer ==
    /\ widget.cls = "ReplaceWidget"
    /\ Notified
    /\ widget._currentWidget = manager.current
    /\ getType(manager.current) = "VCSAnnotateViewer"

\* C35: while the current tab of the Replace widget is a VCS annotation
\* viewer the Replace, Replace-and-move and Replace-all buttons are
\* disabled.
C35_ViewerNotReplaceable ==
    OnViewer =>
        /\ ~widget.replaceButton
        /\ ~widget.replaceAndMoveButton
        /\ ~widget.replaceAllButton

\* the same right after the tab has become the current one
C35_AfterSwitch ==
    OnViewer /\ output.op = "updateStatus" =>
        /\ ~widget.replaceButton
        /\ ~widget.replaceAndMoveButton
        /\ ~widget.replaceAllButton

\* Next on the annotation viewer has found the query: the three buttons
\* are enabled
C35_EnabledByNext ==
    /\ OnViewer
    /\ output.op = "onNext"
    /\ output.last.op = "updateStatus"
    /\ output.emitted # <<>>
    /\ widget.replaceButton
    /\ widget.replaceAndMoveButton
    /\ widget.replaceAllButton

\* C36: neither the find history nor the replace history of the widget
\* has the empty string as an entry.
C36_NoEmptyEntry ==
    /\ Empty \notin Range(widget.findHistory)
    /\ Empty \notin Range(widget.replaceHistory)

\* the same of the Find widget
C36_FindWidget == widget.cls = "FindWidget" => C36_NoEmptyEntry

\* Replace with nothing in the replace field: the empty string is an
\* entry of the replace history, in the widget and in the project
C36_EmptyReplacement ==
    /\ output.op = "onReplace"
    /\ widget.findHistory = <<<<"a">>>>
    /\ widget.replaceHistory = <<Empty>>
    /\ project.replaceHistory = <<Empty>>

\* a change of the query or of an option is evaluated in a continuing
\* search and ends with the cursor put back on the anchor (empty query or
\* nothing found)
BackToAnchorStep ==
    /\ output'.op \in {"editText", "checkBox"}
    /\ Searchable(World')
    /\ HasRecord(World')
    /\ output'.emitted = <<FALSE>>

\* C37: whenever an incremental evaluation puts the cursor back on the
\* anchor, the anchor is a position, with line >= 0 and column >= 0.
C37_AnchorSet ==
    [][BackToAnchorStep =>
          /\ Anchor(World')[1] >= 0
          /\ Anchor(World')[2] >= 0]_vars

\* the same in a document whose record was made after the last Escape
C37_WithoutEscape ==
    [][BackToAnchorStep /\ HasRecord(World) /\ Anchor(World)[1] >= 0 =>
          /\ Anchor(World')[1] >= 0
          /\ Anchor(World')[2] >= 0]_vars

\* the query is emptied in a document whose anchor Escape has cleared
C37_ClearedAnchorUsed ==
    /\ output.op = "editText"
    /\ widget.findText = Empty
    /\ output.emitted = <<FALSE>>
    /\ HasRecord(World)
    /\ Anchor(World) = <<-1, -1>>

\* C38: after a Replace-all which has substituted at least one occurrence
\* the document's lastMatch is (-1,-1,-1).
C38_NoStaleMatch ==
    [][ReplaceAllStep /\ output'.count >= 1 =>
          (HasRecord(World') => lastMatch(World') = NoMatch)]_vars

\* what Replace-all does to the registry: nothing
C38_RegistryKept ==
    [][output'.op = "onReplaceAll" =>
          widget'.editorSearchAttributes = widget.editorSearchAttributes]_vars

\* Replace-all has put "b" for the three "a" of the text; the match of
\* the search before it, the "a" at offset 0, is still remembered
C38_Stale ==
    /\ output.op = "onReplaceAll"
    /\ output.count = 3
    /\ editors["A"].text = <<"b", "X", "b", "X", "b">>
    /\ HasRecord(World)
    /\ lastMatch(World) = <<0, 0, 1>>

====
